---- MODULE Spec2Model ----
(***************************************************************************)
(* GravityDown backend: the three task registries (download, compress,     *)
(* convert), their workers / runners / reader threads, and the HTTP        *)
(* handlers that create and cancel tasks.                                  *)
(*                                                                         *)
(* Conventions                                                             *)
(*  - progress is a Python float holding a percentage.  It is kept here in *)
(*    tenths of a percent (100.0 is 1000, 99.0 is 990, 0.2 is 2); the      *)
(*    inputs are chosen so that every quotient the code computes is exact  *)
(*    at that resolution.                                                  *)
(*  - a task id is str(uuid.uuid4())[:8]; uuid4 is taken to return an id   *)
(*    not handed out before, and the ids of one registry are numbered in   *)
(*    the order they were handed out.                                      *)
(*  - the handlers are coroutines of one asyncio event loop and contain no *)
(*    await before their last statement, so no two handlers interleave;    *)
(*    workers, runners and reader threads are OS threads and interleave    *)
(*    with everything wherever no lock is held.                            *)
(***************************************************************************)
EXTENDS Integers, Sequences, FiniteSets, TLC

VARIABLES
    tasks,              \* DownloadManager.tasks: task_id -> DownloadTask
    worker,             \* position of each _download_worker in the pool
    ticks,              \* progress-hook calls made so far (bounded)
    compression_tasks,  \* main.compression_tasks: task_id -> CompressionTask
    compression,        \* locals and position of each _run_compression
    convert_tasks,      \* main.convert_tasks: task_id -> ConvertTask
    convert,            \* locals and position of each _run_convert
    lines,              \* lines read so far by reader threads (bounded)
    admission,          \* start_compression between its two lock sections
    response,           \* what the step just taken returned to its caller
    observer,           \* a status request or an event stream, and what it read
    files,              \* the output files that exist in the output directory
    output_path,        \* task.output_path of the compress and convert tasks
    compression_encoders,   \* main.compression_encoders
    probes,             \* runs of "ffmpeg -encoders" so far (bounded)
    startup,            \* how far the import and the startup event have come
    threads,            \* one kind's lock and where each thread is in its code
    replay              \* one pipe content fed to both parsers, and their writes

vars == <<tasks, worker, ticks, compression_tasks, compression,
          convert_tasks, convert, lines, admission, response, observer,
          files, output_path, compression_encoders, probes, startup,
          threads, replay>>

downloadVars == <<tasks, worker, ticks>>
compressVars == <<compression_tasks, compression>>
convertVars  == <<convert_tasks, convert>>
pathVars     == <<files, output_path>>
encoderVars  == <<compression_encoders, probes, startup>>

(***************************************************************************)
(* Bounds of the model                                                     *)
(***************************************************************************)
MaxTasks == 2       \* tasks submitted in one run, over the three kinds
MaxTicks == 2       \* progress-hook calls in one run
MaxLines == 1       \* lines read from the pipes in one run
MaxPolls == 2       \* events one stream emits in one run
MaxDownloads == 4   \* downloads submitted in one run of the pool alone
MaxParseLines == 2  \* lines fed to the parsers in one run of the parsers alone
MaxProbes == 8      \* runs of "ffmpeg -encoders" in one run
MaxTailLines == 6   \* stderr lines read in one run of the stderr reader alone

TaskIds == 1 .. MaxTasks

(***************************************************************************)
(* Values of the program                                                   *)
(***************************************************************************)
CancelledMsg == "Cancelled by user"

\* an error field: None, or a message given as the lines it is made of
NoError == [set |-> FALSE, text |-> <<>>]
Msg(s) == [set |-> TRUE, text |-> <<s>>]
Cancelled == Msg(CancelledMsg)

\* DownloadStatus
PENDING       == "pending"
FETCHING_INFO == "fetching_info"
DOWNLOADING   == "downloading"
PROCESSING    == "processing"
COMPLETED     == "completed"
ERROR         == "error"

\* CompressionStatus (PENDING, COMPLETED, ERROR have the same values)
COMPRESSING == "compressing"

\* for index in range(2, 50)
RangeStop == 50

\* progress values, in tenths of a percent
P100 == 1000
P99  == 990
Inc02 == 2
Inc03 == 3

\* (mutant) the pool has one more thread
max_workers_Four == 3 + 1

max_workers == 3

Min(a, b) == IF a <= b THEN a ELSE b

\* a / b * 100 as a percentage in tenths
Percent(a, b) == (a * 1000) \div b

\* str(uuid.uuid4())[:8]
NewTaskId(registry) == Cardinality(DOMAIN registry) + 1

TotalTasks ==
    Cardinality(DOMAIN tasks) + Cardinality(DOMAIN compression_tasks)
        + Cardinality(DOMAIN convert_tasks)

NoResponse == [op |-> "none", id |-> 0, code |-> 0]

(***************************************************************************)
(* Downloads (downloader.py)                                               *)
(*                                                                         *)
(* Of DownloadTask's fields the model keeps status, progress and error.    *)
(* total_bytes and downloaded_bytes are read only inside the hook call     *)
(* that has just written them; speed, eta, filename, title and thumbnail   *)
(* are never read by the manager.                                          *)
(***************************************************************************)
DownloadTask == [status |-> PENDING, progress |-> 0, error |-> NoError]

\* the byte counts a progress tick may carry (for total_bytes 0 also stands
\* for None or an absent key, for total_bytes_estimate for an absent key)
ByteCounts == {0, 1, 2}

\* the dictionaries yt-dlp hands to a progress hook
HookEvents ==
    [status : {"downloading"}, downloaded_bytes : ByteCounts,
     total_bytes : ByteCounts, total_bytes_estimate : ByteCounts]
        \cup {[status |-> "finished"], [status |-> "error"]}

HookErrorMsg == "Unknown error"
ExceptionMsg == "engine exception"

\* DownloadManager.start_download, called by the /download handler
start_download ==
    /\ ~admission
    /\ LET task_id == NewTaskId(tasks) IN
        /\ tasks' = (task_id :> DownloadTask) @@ tasks
        /\ worker' = (task_id :> "queued") @@ worker
        /\ response' = [op |-> "start_download", id |-> task_id, code |-> 200]
    /\ UNCHANGED <<ticks, compressVars, convertVars, lines, admission>>

\* start_download when uuid4 is free to return any identifier: the
\* assignment self.tasks[task_id] = task is made whatever the registry
\* holds.  The earlier worker of that identifier, if any, has finished.
start_download_uuid(task_id) ==
    /\ ~admission
    /\ task_id \in DOMAIN worker => worker[task_id] = "done"
    /\ tasks' = (task_id :> DownloadTask) @@ tasks
    /\ worker' = (task_id :> "queued") @@ worker
    /\ response' = [op |-> "start_download", id |-> task_id, code |-> 200]
    /\ UNCHANGED <<ticks, compressVars, convertVars, lines, admission>>

\* the pool starts a queued worker when fewer than max_workers are running;
\* the worker's first statement writes FETCHING_INFO
DownloadWorkerStart(task_id) ==
    /\ task_id \in DOMAIN worker
    /\ worker[task_id] = "queued"
    /\ Cardinality({t \in DOMAIN worker : worker[t] = "running"}) < max_workers
    /\ tasks' = [tasks EXCEPT ![task_id].status = FETCHING_INFO]
    /\ worker' = [worker EXCEPT ![task_id] = "running"]
    /\ response' = NoResponse
    /\ UNCHANGED <<ticks, compressVars, convertVars, lines, admission>>

\* (mutant) the estimate is not looked at
HookTotal_NoEstimate(d) == d.total_bytes

\* d.get("total_bytes") or d.get("total_bytes_estimate", 0)
HookTotal(d) == IF d.total_bytes # 0 THEN d.total_bytes ELSE d.total_bytes_estimate

\* the branches of _progress_hook on d's status
HookUpdate(task, d) ==
    IF d.status = "downloading" THEN
        [task EXCEPT
            !.status = DOWNLOADING,
            !.progress = IF HookTotal(d) > 0
                         THEN Percent(d.downloaded_bytes, HookTotal(d))
                         ELSE task.progress]
    ELSE IF d.status = "finished" THEN
        [task EXCEPT !.status = PROCESSING, !.progress = P100]
    ELSE
        [task EXCEPT !.status = ERROR, !.error = Msg(HookErrorMsg)]

\* the body of _progress_hook under self._lock
HookSection(registry, task_id, d) ==
    IF task_id \notin DOMAIN registry THEN registry
    ELSE [registry EXCEPT ![task_id] = HookUpdate(@, d)]

\* the engine, running inside the worker's extract_info call, calls the hook
_progress_hook(task_id, d) ==
    /\ task_id \in DOMAIN worker
    /\ worker[task_id] = "running"
    /\ ticks' = ticks + 1
    /\ tasks' = HookSection(tasks, task_id, d)
    /\ response' = NoResponse
    /\ UNCHANGED <<worker, compressVars, convertVars, lines, admission>>

\* the hook called with an identifier start_download has not returned; no
\* code of the repository makes this call
_progress_hook_unknown(task_id, d) ==
    /\ task_id \notin DOMAIN tasks
    /\ ticks' = ticks + 1
    /\ tasks' = HookSection(tasks, task_id, d)
    /\ response' = NoResponse
    /\ UNCHANGED <<worker, compressVars, convertVars, lines, admission>>

\* extract_info returned: the worker's completion write
DownloadWorkerComplete(task_id) ==
    /\ task_id \in DOMAIN worker
    /\ worker[task_id] = "running"
    /\ tasks' = [tasks EXCEPT ![task_id].status = COMPLETED,
                              ![task_id].progress = P100]
    /\ worker' = [worker EXCEPT ![task_id] = "done"]
    /\ response' = NoResponse
    /\ UNCHANGED <<ticks, compressVars, convertVars, lines, admission>>

\* something inside the try block raised: the worker's except clause
DownloadWorkerExcept(task_id) ==
    /\ task_id \in DOMAIN worker
    /\ worker[task_id] = "running"
    /\ tasks' = [tasks EXCEPT ![task_id].status = ERROR,
                              ![task_id].error = Msg(ExceptionMsg)]
    /\ worker' = [worker EXCEPT ![task_id] = "done"]
    /\ response' = NoResponse
    /\ UNCHANGED <<ticks, compressVars, convertVars, lines, admission>>

\* (mutant) cancel_task also accepts while the worker fetches the metadata
DownloadCancellable_Fetching == {PENDING, FETCHING_INFO, DOWNLOADING}

\* (mutant) cancel_task accepts whatever the status is
DownloadCancellable_Any ==
    {PENDING, FETCHING_INFO, DOWNLOADING, PROCESSING, COMPLETED, ERROR}

\* the statuses in which cancel_task accepts
DownloadCancellable == {PENDING, DOWNLOADING}

\* (mutant) an accepted cancel writes the status and leaves the error
CancelWrite_StatusOnly(task) == [task EXCEPT !.status = ERROR]

\* the write of an accepted cancel
CancelWrite(task) == [task EXCEPT !.status = ERROR, !.error = Cancelled]

\* (mutant) an accepted cancel drops the task from the registry
cancel_task_Remove(task_id) ==
    /\ ~admission
    /\ IF task_id \in DOMAIN tasks /\ tasks[task_id].status \in DownloadCancellable
       THEN /\ tasks' = [t \in DOMAIN tasks \ {task_id} |-> tasks[t]]
            /\ response' = [op |-> "cancel_download", id |-> task_id, code |-> 200]
       ELSE /\ tasks' = tasks
            /\ response' = [op |-> "cancel_download", id |-> task_id, code |-> 400]
    /\ UNCHANGED <<worker, ticks, compressVars, convertVars, lines, admission>>

\* DownloadManager.cancel_task and the /cancel handler around it
cancel_task(task_id) ==
    /\ ~admission
    /\ IF task_id \in DOMAIN tasks /\ tasks[task_id].status \in DownloadCancellable
       THEN /\ tasks' = [tasks EXCEPT ![task_id] = CancelWrite(@)]
            /\ response' = [op |-> "cancel_download", id |-> task_id, code |-> 200]
       ELSE /\ tasks' = tasks
            /\ response' = [op |-> "cancel_download", id |-> task_id, code |-> 400]
    /\ UNCHANGED <<worker, ticks, compressVars, convertVars, lines, admission>>

DownloadNext ==
    \/ TotalTasks < MaxTasks /\ start_download
    \/ \E task_id \in TaskIds : DownloadWorkerStart(task_id)
    \/ \E task_id \in TaskIds : \E d \in HookEvents :
            ticks < MaxTicks /\ _progress_hook(task_id, d)
    \/ \E task_id \in TaskIds : DownloadWorkerComplete(task_id)
    \/ \E task_id \in TaskIds : DownloadWorkerExcept(task_id)
    \/ \E task_id \in TaskIds : cancel_task(task_id)

(***************************************************************************)
(* Lines of the transcoder's pipes                                         *)
(*                                                                         *)
(* A line is given by what handle_line's string operations find in it:     *)
(*   text     the line, stripped                                           *)
(*   key      the text before the first "=" ("" when the line has no "=")  *)
(*   numeric  float(value) succeeds, and then num is that number           *)
(*   word     the text after the first "=" when the key is progress        *)
(*   has_time the line contains "time="                                    *)
(*   hms      the H:M:S token after "time=" (and the value of an out_time  *)
(*            line) as <<hours, minutes, seconds in ms>>, <<>> when the    *)
(*            token does not split into three numbers                      *)
(***************************************************************************)
Line(text, key, numeric, num, word, has_time, hms) ==
    [text |-> text, key |-> key, numeric |-> numeric, num |-> num,
     word |-> word, has_time |-> has_time, hms |-> hms]

NoLine == Line("", "", FALSE, 0, "", FALSE, <<>>)

\* what ffmpeg writes to stdout under -progress pipe:1
StdoutLines ==
    { Line("out_time_ms=5000", "out_time_ms", TRUE, 5000, "", FALSE, <<>>),
      Line("out_time_ms=-5000", "out_time_ms", TRUE, -5000, "", FALSE, <<>>),
      Line("out_time_us=5000000", "out_time_us", TRUE, 5000000, "", FALSE, <<>>),
      Line("out_time=00:00:05.000000", "out_time", FALSE, 0, "", TRUE, <<0, 0, 5000>>),
      Line("out_time=N/A", "out_time", FALSE, 0, "", TRUE, <<>>),
      Line("progress=continue", "progress", FALSE, 0, "continue", FALSE, <<>>) }

\* what ffmpeg writes to stderr: its log
StderrLines ==
    { Line("frame=1 time=00:00:05.00 bitrate=1k", "frame", FALSE, 0, "", TRUE, <<0, 0, 5000>>),
      Line("Conversion failed!", "", FALSE, 0, "", FALSE, <<>>),
      NoLine }

StreamLines(stream) == IF stream = "stdout" THEN StdoutLines ELSE StderrLines

Streams == {"stdout", "stderr"}

\* the durations _get_duration_ms may return (0 stands for None)
Durations == {0, 10000}

\* the return codes of a transcoder that exits by itself
ExitCodes == {0, 1}

\* seconds = float(s) + int(m) * 60 + int(h) * 3600; out_time_ms = seconds * 1000
TimeMs(hms) == ((hms[1] * 3600) + (hms[2] * 60)) * 1000 + hms[3]

\* min(100.0, (out_time_ms / duration_ms) * 100)
DurationProgress(out_time_ms, duration_ms) ==
    Min(P100, Percent(out_time_ms, duration_ms))

\* min(99.0, last_progress + increment)
HeuristicProgress(last_progress, increment) == Min(P99, last_progress + increment)

\* if duration_ms: ... else: ...
LineProgress(out_time_ms, duration_ms, last_progress) ==
    IF duration_ms # 0
    THEN DurationProgress(out_time_ms, duration_ms)
    ELSE HeuristicProgress(last_progress, Inc02)

\* last_error_lines[-5:]
TailLen == 5

\* (mutant) last_error_lines[:5]: the first lines instead of the last
ErrorTail_Head(seq) ==
    IF Len(seq) <= TailLen THEN seq ELSE SubSeq(seq, 1, TailLen)

ErrorTail(seq) ==
    IF Len(seq) <= TailLen THEN seq
    ELSE SubSeq(seq, Len(seq) - TailLen + 1, Len(seq))

\* "\n".join(lines) is the empty string
JoinIsEmpty(seq) == seq = <<>> \/ seq = <<"">>

\* (mutant) the tail is written even when it is empty
TailError_NoDefault(seq, default) == [set |-> TRUE, text |-> ErrorTail(seq)]

\* tail or default
TailError(seq, default) ==
    IF JoinIsEmpty(ErrorTail(seq)) THEN Msg(default)
    ELSE [set |-> TRUE, text |-> ErrorTail(seq)]

(***************************************************************************)
(* Lock sections                                                           *)
(*                                                                         *)
(* The code of one kind as its threads run it, statement by statement, for *)
(* what the statements do to the kind's lock and to its tasks:             *)
(*   acquire / release   entering and leaving "with <lock>:"               *)
(*   write               an assignment to a field of a task, or to the     *)
(*                       registry                                          *)
(*   read                a read of the registry or of a task               *)
(*   block               a call that waits (extract_info, process.wait)    *)
(*   other               anything else                                     *)
(* A function with an early return or an except clause is given path by    *)
(* path.  The event loop runs the handlers one after the other, the worker *)
(* or runner thread its function, the reader threads handle_line.          *)
(***************************************************************************)
Section(body) == <<"acquire">> \o body \o <<"release">>

\* (mutant) the key branches assign task.progress without the lock
handle_line_Unlocked ==
    Section(<<"read", "write">>) \o <<"other", "read", "write", "other">>

\* handle_line of _run_compression and of _run_convert: the "time=" block
\* and one key branch
handle_line ==
    Section(<<"read", "write">>) \o <<"other">>
        \o Section(<<"read", "write">>) \o <<"other">>

\* downloader.py under self._lock
DownloaderCode(function) ==
    CASE function = "start_download" ->                     \* 250-267
            <<"other">> \o Section(<<"write">>) \o <<"other">>
      [] function = "get_task_status" ->                    \* 402-405, main 864-879
            Section(<<"read">>) \o <<"read", "read", "read">>
      [] function = "cancel_task" ->                        \* 407-415
            Section(<<"read", "read", "write", "write">>)
      [] function = "_download_worker" ->                   \* 281-283, 132-160, 382-390
            Section(<<"read", "write">>) \o <<"block">>
                \o Section(<<"read", "write", "write", "write", "write", "write",
                              "write", "write">>)
                \o <<"block">>
                \o Section(<<"read", "write", "write", "write", "write", "write">>)
                \o <<"read">>
      [] function = "_download_worker.except" ->            \* 281-283, 393-396, 399-400
            Section(<<"read", "write">>) \o <<"block">>
                \o Section(<<"read", "write", "write">>) \o <<"read">>

\* main.py under compression_lock (kind compress) or convert_lock
MainCode(kind, function) ==
    CASE function = "start" ->                              \* 989-1027, 1098-1130
            IF kind = "compress"
            THEN Section(<<"read">>) \o <<"other">> \o Section(<<"write", "write">>)
            ELSE <<"other">> \o Section(<<"write">>)
      [] function = "status" ->                             \* 1042-1057, 1133-1148
            Section(<<"read">>) \o <<"read", "read", "read">>
      [] function = "cancel" ->                             \* 937-960, 963-986
            Section(<<"read", "read", "other", "block", "write", "write">>)
      [] function = "run.no_ffmpeg" ->                      \* 340-347, 613-620
            Section(<<"read", "write", "write">>)
      [] function = "run" ->                                \* 349-610, 622-788
            (IF kind = "compress" THEN Section(<<"read">>) ELSE <<>>)
                \o Section(<<"read", "write", "write">>) \o <<"other">>
                \o Section(<<"read", "write">>) \o <<"block">>
                \o Section(<<"read", "read", "write", "write">>)
      [] function = "handle_line" -> handle_line

Code(kind, function) ==
    IF kind = "download" THEN DownloaderCode(function) ELSE MainCode(kind, function)

\* the threads of a kind and the functions each of them runs
Functions(kind, thread) ==
    IF kind = "download"
    THEN CASE thread = "loop" -> {"start_download", "get_task_status", "cancel_task"}
           [] thread = "worker" -> {"_download_worker", "_download_worker.except"}
           [] OTHER -> {}
    ELSE CASE thread = "loop" -> {"start", "status", "cancel"}
           [] thread = "worker" -> {"run", "run.no_ffmpeg"}
           [] OTHER -> {"handle_line"}

Threads == {"loop", "worker", "stdout", "stderr"}

NotRunning == [function |-> "", at |-> 0]

NoThreads == [kind |-> "", lock |-> "", at |-> [thread \in Threads |-> NotRunning]]

\* a thread that runs nothing starts one of its functions
Call(thread, function) ==
    /\ threads.at[thread] = NotRunning
    /\ function \in Functions(threads.kind, thread)
    /\ threads' = [threads EXCEPT !.at[thread] = [function |-> function, at |-> 1]]

\* the statement a thread is at ("" when it runs nothing)
Statement(thread) ==
    IF threads.at[thread] = NotRunning THEN ""
    ELSE Code(threads.kind, threads.at[thread].function)[threads.at[thread].at]

\* a thread executes its statement: threading.Lock is not reentrant and
\* acquire waits until the lock is free
Execute(thread) ==
    LET here == threads.at[thread]
        code == Code(threads.kind, here.function)
        next == IF here.at = Len(code) THEN NotRunning ELSE [here EXCEPT !.at = @ + 1]
    IN  /\ here # NotRunning
        /\ Statement(thread) = "acquire" => threads.lock = ""
        /\ threads' =
            [threads EXCEPT
                !.at[thread] = next,
                !.lock = IF Statement(thread) = "acquire" THEN thread
                         ELSE IF Statement(thread) = "release" THEN ""
                         ELSE @]

(***************************************************************************)
(* Hardware encoders (main.py)                                             *)
(*                                                                         *)
(* None is the empty string, a list is a sequence.  The module calls       *)
(* _detect_encoders once while it is imported and once more in its startup *)
(* event; the requests come after both.                                    *)
(***************************************************************************)
NoEncoders == [available |-> FALSE, best |-> "", all |-> <<>>]

\* for encoder in ["h264_nvenc", "h264_qsv", "h264_amf"]
HardwareEncoders == <<"h264_nvenc", "h264_qsv", "h264_amf">>

\* what "ffmpeg -encoders" may list of them
ProbeOutputs == SUBSET {"h264_nvenc", "h264_qsv", "h264_amf"}

\* the record _detect_encoders writes for an output
Detected(output) ==
    LET available == SelectSeq(HardwareEncoders, LAMBDA encoder : encoder \in output)
    IN  [available |-> available # <<>>,
         best |-> IF available = <<>> THEN "" ELSE available[1],
         all |-> available]

\* _detect_encoders: no ffmpeg, or a probe that fails, or a probe whose
\* output is read
_detect_encoders(ffmpeg, ran, output) ==
    /\ probes' = IF ffmpeg THEN probes + 1 ELSE probes
    /\ compression_encoders' =
        IF ffmpeg /\ ran THEN Detected(output) ELSE compression_encoders

\* if not compression_encoders.get("all"): the handler takes a non-empty
\* list for a filled cache
EncodersCached == compression_encoders.all # <<>>

\* the call at the end of the module, made while it is imported
ImportDetect(ffmpeg, ran, output) ==
    /\ startup = "import"
    /\ startup' = "startup"
    /\ _detect_encoders(ffmpeg, ran, output)
    /\ response' = NoResponse
    /\ UNCHANGED <<downloadVars, compressVars, convertVars, lines, admission>>

on_startup(ffmpeg, ran, output) ==
    /\ startup = "startup"
    /\ startup' = "serving"
    /\ _detect_encoders(ffmpeg, ran, output)
    /\ response' = NoResponse
    /\ UNCHANGED <<downloadVars, compressVars, convertVars, lines, admission>>

\* GET /compress/encoders
get_compression_encoders(ffmpeg, ran, output) ==
    /\ startup = "serving"
    /\ startup' = startup
    /\ IF EncodersCached
       THEN UNCHANGED <<compression_encoders, probes>>
       ELSE _detect_encoders(ffmpeg, ran, output)
    /\ response' = [op |-> "get_compression_encoders", id |-> 0, code |-> 200]
    /\ UNCHANGED <<downloadVars, compressVars, convertVars, lines, admission>>

EncoderNext ==
    \/ \E ffmpeg, ran \in BOOLEAN : \E output \in ProbeOutputs :
            ImportDetect(ffmpeg, ran, output)
    \/ \E ffmpeg, ran \in BOOLEAN : \E output \in ProbeOutputs :
            on_startup(ffmpeg, ran, output)
    \/ \E ffmpeg, ran \in BOOLEAN : \E output \in ProbeOutputs :
            probes < MaxProbes /\ get_compression_encoders(ffmpeg, ran, output)

(***************************************************************************)
(* Output paths                                                            *)
(*                                                                         *)
(* The tasks of one run share the input file, the output directory and the *)
(* output format, so a path of the output directory is given by its suffix *)
(* (compressed / converted) and its index: 1 for base-suffix.ext, n for    *)
(* base-suffix-n.ext, where n is 2 .. 49 or a timestamp.                   *)
(***************************************************************************)
Path(suffix, index) == [suffix |-> suffix, index |-> index]

\* output_path="" at creation
NoPaths == [compress |-> <<>>, convert |-> <<>>]

\* the values int(time.time()) takes
Timestamps == {1762000000, 1762000001}

\* (mutant) the loop starts one candidate later
FirstCandidate_Skip == 2 + 1

\* range(2, 50) starts at
FirstCandidate == 2

\* the loop over range(2, 50) from index on, and the timestamp path after it
RECURSIVE Candidates(_, _, _, _)
Candidates(suffix, index, exists, now) ==
    IF index >= RangeStop THEN Path(suffix, now)
    ELSE IF Path(suffix, index) \notin exists THEN Path(suffix, index)
    ELSE Candidates(suffix, index + 1, exists, now)

\* the body _build_output_path and _build_convert_output_path share
BuildPath(suffix, exists, now) ==
    IF Path(suffix, 1) \notin exists THEN Path(suffix, 1)
    ELSE Candidates(suffix, FirstCandidate, exists, now)

_build_output_path(exists, now) == BuildPath("compressed", exists, now)

_build_convert_output_path(exists, now) == BuildPath("converted", exists, now)

(***************************************************************************)
(* Runner locals and reader threads, as _run_compression and _run_convert  *)
(* both have them.                                                         *)
(*                                                                         *)
(* A runner is queued, at Popen, before the lock section that writes       *)
(* task.process, in process.wait(), or has returned (done) or ended with   *)
(* Popen's exception (raised).  duration_ms is drawn where the readers     *)
(* start: nothing reads it before handle_line.  Locals nobody can read any *)
(* more are put back to their initial values: last_progress is read only   *)
(* when the duration is unknown, out_time_ms only across lines of          *)
(* _run_convert with a known duration, last_error_lines and returncode     *)
(* only by the runner's last lock section.                                 *)
(***************************************************************************)
Reader == [pc |-> "idle", line |-> NoLine, progress |-> 0]
AtReadline == [pc |-> "readline", line |-> NoLine, progress |-> 0]
AtEof == [pc |-> "eof", line |-> NoLine, progress |-> 0]

Runner ==
    [pc |-> "queued", duration_ms |-> 0, process |-> "none", returncode |-> 0,
     out_time_ms |-> 0, last_progress |-> 0, last_error_lines |-> <<>>,
     stdout |-> Reader, stderr |-> Reader]

\* the locals of a runner that has returned and whose readers have finished
Release(r) ==
    IF r.pc = "done" /\ r.stdout.pc = "eof" /\ r.stderr.pc = "eof"
    THEN [r EXCEPT !.duration_ms = 0, !.out_time_ms = 0, !.last_progress = 0]
    ELSE r

\* read_err appends the stripped line before it calls handle_line; the
\* list keeps every line, and only the last lock section takes its tail
AppendError(r, stream, line) ==
    IF stream = "stderr" /\ r.pc # "done"
    THEN Append(r.last_error_lines, line.text)
    ELSE r.last_error_lines

\* the token after "time=" splits into h, m, s that convert to numbers
TimeParses(line) == line.has_time /\ Len(line.hms) = 3

\* what one block of handle_line decided: whether it writes progress, the
\* value, and out_time_ms as it leaves it
Decision(write, progress, out_time_ms) ==
    [write |-> write, progress |-> progress, out_time_ms |-> out_time_ms]

\* handle_line's "time=" block: the value it is about to write
TimeBlock(line, r) ==
    Decision(TRUE, LineProgress(TimeMs(line.hms), r.duration_ms, r.last_progress),
             TimeMs(line.hms))

\* (mutant) the value is taken as milliseconds whatever its size
OutTimeMsValue_NoRescale(raw_value, duration_ms) == raw_value

\* out_time_ms=<raw>: microseconds when raw exceeds ten times the duration
OutTimeMsValue(raw_value, duration_ms) ==
    IF duration_ms # 0 /\ raw_value > duration_ms * 10
    THEN raw_value \div 1000
    ELSE raw_value

\* the reader after a decision: before the lock section, or back at readline
AfterDecision(d, pc, line) ==
    IF d.write THEN [pc |-> pc, line |-> line, progress |-> d.progress] ELSE AtReadline

\* last_progress = progress
SetLastProgress(r, progress) ==
    IF r.duration_ms = 0 THEN [r EXCEPT !.last_progress = progress] ELSE r

\* out_time_ms = ...
SetOutTime(r, out_time_ms) ==
    IF r.duration_ms # 0 THEN [r EXCEPT !.out_time_ms = out_time_ms] ELSE r

\* process.terminate(): a process that had not exited gets the signal; the
\* handler that sent it waits for it inside its lock section
Terminate(r) ==
    IF r.process = "running"
    THEN [r EXCEPT !.process = "terminating"]
    ELSE r

\* process.wait(timeout=5) returns, or times out and kill() ends the process
Terminated(r) == [r EXCEPT !.process = "exited", !.returncode = -15]

\* (mutant) the runner writes its outcome whatever the error field holds
KeepsCancellation_Never(task) == FALSE

\* "If canceled manually, do not overwrite the error"
KeepsCancellation(task) == task.error = Cancelled

\* the runner's last lock section
FinalWrite(task, returncode, last_error_lines, default) ==
    IF KeepsCancellation(task) THEN task
    ELSE IF returncode = 0
    THEN [task EXCEPT !.status = COMPLETED, !.progress = P100]
    ELSE [task EXCEPT !.status = ERROR,
                      !.error = TailError(last_error_lines, default)]

\* the runner returns
Returned(r) == Release([r EXCEPT !.pc = "done", !.returncode = 0,
                                 !.last_error_lines = <<>>])

(***************************************************************************)
(* Compression (main.py)                                                   *)
(***************************************************************************)
CompressionTask ==
    [status |-> PENDING, progress |-> 0, error |-> NoError, process |-> FALSE]

FfmpegMissingCompress == "ffmpeg no encontrado. Instala ffmpeg o configura FFMPEG_PATH."
CompressFailed == "Error al comprimir el video."

\* (mutant) the scan is skipped
CompressionBusy_Never == FALSE

\* (mutant) the scan refuses as soon as the registry holds a task
CompressionBusy_AnyTask == DOMAIN compression_tasks # {}

\* start_compression's scan: some existing task is COMPRESSING
CompressionBusy ==
    \E t \in DOMAIN compression_tasks : compression_tasks[t].status = COMPRESSING

\* start_compression up to the end of its first lock section
start_compression(input_is_file) ==
    /\ ~admission
    /\ IF ~input_is_file
       THEN /\ response' = [op |-> "start_compression", id |-> 0, code |-> 400]
            /\ admission' = FALSE
       ELSE IF CompressionBusy
       THEN /\ response' = [op |-> "start_compression", id |-> 0, code |-> 409]
            /\ admission' = FALSE
       ELSE /\ response' = NoResponse
            /\ admission' = TRUE
    /\ UNCHANGED <<downloadVars, compressVars, convertVars, lines>>

\* start_compression from its second lock section to its return
start_compression_create ==
    /\ admission
    /\ LET task_id == NewTaskId(compression_tasks) IN
        /\ compression_tasks' = (task_id :> CompressionTask) @@ compression_tasks
        /\ compression' = (task_id :> Runner) @@ compression
        /\ response' = [op |-> "start_compression", id |-> task_id, code |-> 200]
    /\ admission' = FALSE
    /\ UNCHANGED <<downloadVars, convertVars, lines>>

\* (mutant) the runner goes on without looking for the binary
CompressionBegin_NoCheck(task_id, ffmpeg) ==
    /\ task_id \in DOMAIN compression
    /\ compression[task_id].pc = "queued"
    /\ compression_tasks' = [compression_tasks EXCEPT ![task_id].status = COMPRESSING]
    /\ compression' = [compression EXCEPT ![task_id].pc = "popen"]
    /\ response' = NoResponse
    /\ UNCHANGED <<downloadVars, convertVars, lines, admission>>

\* _run_compression up to Popen: ffmpeg missing ends the task, otherwise the
\* command is built and a lock section writes output_path and COMPRESSING
CompressionBegin(task_id, ffmpeg) ==
    /\ task_id \in DOMAIN compression
    /\ compression[task_id].pc = "queued"
    /\ IF ~ffmpeg
       THEN /\ compression_tasks' =
                [compression_tasks EXCEPT ![task_id].status = ERROR,
                                          ![task_id].error = Msg(FfmpegMissingCompress)]
            /\ compression' = [compression EXCEPT ![task_id].pc = "done"]
       ELSE /\ compression_tasks' =
                [compression_tasks EXCEPT ![task_id].status = COMPRESSING]
            /\ compression' = [compression EXCEPT ![task_id].pc = "popen"]
    /\ response' = NoResponse
    /\ UNCHANGED <<downloadVars, convertVars, lines, admission>>

\* subprocess.Popen: the process starts, or Popen raises and the runner's
\* thread ends with the exception
CompressionPopen(task_id, spawned) ==
    /\ task_id \in DOMAIN compression
    /\ compression[task_id].pc = "popen"
    /\ compression' =
        IF spawned
        THEN [compression EXCEPT ![task_id].pc = "set_process",
                                 ![task_id].process = "running"]
        ELSE [compression EXCEPT ![task_id].pc = "raised"]
    /\ response' = NoResponse
    /\ UNCHANGED <<downloadVars, compression_tasks, convertVars, lines, admission>>

\* the lock section that writes task.process; then the locals are
\* initialised and the two reader threads started
CompressionSetProcess(task_id, duration_ms) ==
    /\ task_id \in DOMAIN compression
    /\ compression[task_id].pc = "set_process"
    /\ compression_tasks' = [compression_tasks EXCEPT ![task_id].process = TRUE]
    /\ compression' = [compression EXCEPT ![task_id].pc = "wait",
                                          ![task_id].duration_ms = duration_ms,
                                          ![task_id].stdout = AtReadline,
                                          ![task_id].stderr = AtReadline]
    /\ response' = NoResponse
    /\ UNCHANGED <<downloadVars, convertVars, lines, admission>>

\* the transcoder exits by itself
CompressionProcessExit(task_id, returncode) ==
    /\ task_id \in DOMAIN compression
    /\ compression[task_id].process = "running"
    /\ compression' = [compression EXCEPT ![task_id].process = "exited",
                                          ![task_id].returncode = returncode]
    /\ response' = NoResponse
    /\ UNCHANGED <<downloadVars, compression_tasks, convertVars, lines, admission>>

\* process.wait() returns, each join returns or times out after 0.2 s, and
\* the last lock section writes the outcome
CompressionFinish(task_id) ==
    /\ task_id \in DOMAIN compression
    /\ compression[task_id].pc = "wait"
    /\ compression[task_id].process = "exited"
    /\ compression_tasks' =
        [compression_tasks EXCEPT ![task_id] =
            FinalWrite(@, compression[task_id].returncode,
                       compression[task_id].last_error_lines, CompressFailed)]
    /\ compression' = [compression EXCEPT ![task_id] = Returned(@)]
    /\ response' = NoResponse
    /\ UNCHANGED <<downloadVars, convertVars, lines, admission>>

\* _run_compression.handle_line from key, value = line.strip().split("=", 1);
\* out_time_ms is assigned in each branch before it is read
CompressionKeyBlock(line, r) ==
    LET skip == Decision(FALSE, 0, r.out_time_ms)
        timed(ms) ==
            Decision(TRUE, LineProgress(ms, r.duration_ms, r.last_progress), r.out_time_ms)
    IN  IF line.key = "out_time_ms" THEN
            IF line.numeric THEN timed(OutTimeMsValue(line.num, r.duration_ms)) ELSE skip
        ELSE IF line.key = "out_time_us" THEN
            IF line.numeric THEN timed(line.num \div 1000) ELSE skip
        ELSE IF line.key = "out_time" THEN
            IF Len(line.hms) = 3 THEN timed(TimeMs(line.hms)) ELSE skip
        ELSE IF line.key = "progress" /\ line.word = "continue" THEN
            IF r.duration_ms = 0
            THEN Decision(TRUE, HeuristicProgress(r.last_progress, Inc03), r.out_time_ms)
            ELSE skip
        ELSE skip

\* a reader thread takes a line from its pipe and runs handle_line up to its
\* first lock section
CompressionReadLine(task_id, stream, line) ==
    /\ task_id \in DOMAIN compression
    /\ compression[task_id][stream].pc = "readline"
    /\ lines' = lines + 1
    /\ LET r == compression[task_id]
           d == IF TimeParses(line) THEN TimeBlock(line, r)
                ELSE CompressionKeyBlock(line, r)
           reader == IF TimeParses(line) THEN AfterDecision(d, "time_write", line)
                     ELSE AfterDecision(d, "key_write", NoLine)
       IN compression' =
            [compression EXCEPT ![task_id] =
                [r EXCEPT ![stream] = reader,
                          !.last_error_lines = AppendError(r, stream, line)]]
    /\ response' = NoResponse
    /\ UNCHANGED <<downloadVars, compression_tasks, convertVars, admission>>

\* the lock section of the "time=" block, last_progress = progress, and the
\* rest of handle_line up to its next lock section
CompressionTimeWrite(task_id, stream) ==
    /\ task_id \in DOMAIN compression
    /\ compression[task_id][stream].pc = "time_write"
    /\ LET r == compression[task_id]
           progress == r[stream].progress
           written == SetLastProgress(r, progress)
           d == CompressionKeyBlock(r[stream].line, written)
       IN /\ compression_tasks' = [compression_tasks EXCEPT ![task_id].progress = progress]
          /\ compression' =
                [compression EXCEPT ![task_id] =
                    [written EXCEPT ![stream] = AfterDecision(d, "key_write", NoLine)]]
    /\ response' = NoResponse
    /\ UNCHANGED <<downloadVars, convertVars, lines, admission>>

\* the lock section of a key branch and last_progress = progress
CompressionKeyWrite(task_id, stream) ==
    /\ task_id \in DOMAIN compression
    /\ compression[task_id][stream].pc = "key_write"
    /\ LET r == compression[task_id]
           progress == r[stream].progress
       IN /\ compression_tasks' = [compression_tasks EXCEPT ![task_id].progress = progress]
          /\ compression' =
                [compression EXCEPT ![task_id] =
                    [SetLastProgress(r, progress) EXCEPT ![stream] = AtReadline]]
    /\ response' = NoResponse
    /\ UNCHANGED <<downloadVars, convertVars, lines, admission>>

\* readline returns b'' once the process has exited and the pipe is drained
CompressionEof(task_id, stream) ==
    /\ task_id \in DOMAIN compression
    /\ compression[task_id][stream].pc = "readline"
    /\ compression[task_id].process = "exited"
    /\ compression' =
        [compression EXCEPT ![task_id] = Release([@ EXCEPT ![stream] = AtEof])]
    /\ response' = NoResponse
    /\ UNCHANGED <<downloadVars, compression_tasks, convertVars, lines, admission>>

\* the /compress/cancel handler
cancel_compression(task_id) ==
    /\ ~admission
    /\ IF task_id \notin DOMAIN compression_tasks
       THEN /\ response' = [op |-> "cancel_compression", id |-> task_id, code |-> 404]
            /\ UNCHANGED compressVars
       ELSE IF compression_tasks[task_id].status # COMPRESSING
       THEN /\ response' = [op |-> "cancel_compression", id |-> task_id, code |-> 400]
            /\ UNCHANGED compressVars
       ELSE IF compression_tasks[task_id].process /\ compression[task_id].process = "running"
       THEN /\ compression' = [compression EXCEPT ![task_id] = Terminate(@)]
            /\ compression_tasks' = compression_tasks
            /\ response' = NoResponse
       ELSE /\ compression' = compression
            /\ compression_tasks' =
                [compression_tasks EXCEPT ![task_id] = CancelWrite(@)]
            /\ response' = [op |-> "cancel_compression", id |-> task_id, code |-> 200]
    /\ UNCHANGED <<downloadVars, convertVars, lines, admission>>

\* the handler, still inside its lock section, comes back from
\* process.wait(timeout=5) or kill(), writes the cancellation and returns
cancel_compression_wait(task_id) ==
    /\ task_id \in DOMAIN compression
    /\ compression[task_id].process = "terminating"
    /\ compression' = [compression EXCEPT ![task_id] = Terminated(@)]
    /\ compression_tasks' = [compression_tasks EXCEPT ![task_id] = CancelWrite(@)]
    /\ response' = [op |-> "cancel_compression", id |-> task_id, code |-> 200]
    /\ UNCHANGED <<downloadVars, convertVars, lines, admission>>

CompressionNext ==
    \/ \E input_is_file \in BOOLEAN :
            TotalTasks < MaxTasks /\ start_compression(input_is_file)
    \/ start_compression_create
    \/ \E task_id \in TaskIds : \E ffmpeg \in BOOLEAN : CompressionBegin(task_id, ffmpeg)
    \/ \E task_id \in TaskIds : \E spawned \in BOOLEAN : CompressionPopen(task_id, spawned)
    \/ \E task_id \in TaskIds : \E duration_ms \in Durations :
            CompressionSetProcess(task_id, duration_ms)
    \/ \E task_id \in TaskIds : \E returncode \in ExitCodes :
            CompressionProcessExit(task_id, returncode)
    \/ \E task_id \in TaskIds : CompressionFinish(task_id)
    \/ \E task_id \in TaskIds : \E stream \in Streams : \E line \in StreamLines(stream) :
            lines < MaxLines /\ CompressionReadLine(task_id, stream, line)
    \/ \E task_id \in TaskIds : \E stream \in Streams : CompressionTimeWrite(task_id, stream)
    \/ \E task_id \in TaskIds : \E stream \in Streams : CompressionKeyWrite(task_id, stream)
    \/ \E task_id \in TaskIds : \E stream \in Streams : CompressionEof(task_id, stream)
    \/ \E task_id \in TaskIds : cancel_compression(task_id)

(***************************************************************************)
(* Conversion (main.py)                                                    *)
(***************************************************************************)
ConvertTask ==
    [status |-> PENDING, progress |-> 0, error |-> NoError, process |-> FALSE]

FfmpegMissingConvert == "ffmpeg no encontrado."
ConvertFailed == "Error al convertir."

\* (mutant) /convert refuses while a convert task is processing, as
\* /compress does
start_convert_Singleton(input_is_file) ==
    /\ ~admission
    /\ IF ~input_is_file
       THEN /\ response' = [op |-> "start_convert", id |-> 0, code |-> 400]
            /\ UNCHANGED convertVars
       ELSE IF \E t \in DOMAIN convert_tasks : convert_tasks[t].status = PROCESSING
       THEN /\ response' = [op |-> "start_convert", id |-> 0, code |-> 409]
            /\ UNCHANGED convertVars
       ELSE LET task_id == NewTaskId(convert_tasks) IN
            /\ convert_tasks' = (task_id :> ConvertTask) @@ convert_tasks
            /\ convert' = (task_id :> Runner) @@ convert
            /\ response' = [op |-> "start_convert", id |-> task_id, code |-> 200]
    /\ UNCHANGED <<downloadVars, compressVars, lines, admission>>

\* the /convert handler
start_convert(input_is_file) ==
    /\ ~admission
    /\ IF ~input_is_file
       THEN /\ response' = [op |-> "start_convert", id |-> 0, code |-> 400]
            /\ UNCHANGED convertVars
       ELSE LET task_id == NewTaskId(convert_tasks) IN
            /\ convert_tasks' = (task_id :> ConvertTask) @@ convert_tasks
            /\ convert' = (task_id :> Runner) @@ convert
            /\ response' = [op |-> "start_convert", id |-> task_id, code |-> 200]
    /\ UNCHANGED <<downloadVars, compressVars, lines, admission>>

\* _run_convert up to Popen: ffmpeg missing ends the task, otherwise the
\* command is built and a lock section writes output_path and PROCESSING
ConvertBegin(task_id, ffmpeg) ==
    /\ task_id \in DOMAIN convert
    /\ convert[task_id].pc = "queued"
    /\ IF ~ffmpeg
       THEN /\ convert_tasks' =
                [convert_tasks EXCEPT ![task_id].status = ERROR,
                                          ![task_id].error = Msg(FfmpegMissingConvert)]
            /\ convert' = [convert EXCEPT ![task_id].pc = "done"]
       ELSE /\ convert_tasks' =
                [convert_tasks EXCEPT ![task_id].status = PROCESSING]
            /\ convert' = [convert EXCEPT ![task_id].pc = "popen"]
    /\ response' = NoResponse
    /\ UNCHANGED <<downloadVars, compressVars, lines, admission>>

\* subprocess.Popen: the process starts, or Popen raises and the runner's
\* thread ends with the exception
ConvertPopen(task_id, spawned) ==
    /\ task_id \in DOMAIN convert
    /\ convert[task_id].pc = "popen"
    /\ convert' =
        IF spawned
        THEN [convert EXCEPT ![task_id].pc = "set_process",
                                 ![task_id].process = "running"]
        ELSE [convert EXCEPT ![task_id].pc = "raised"]
    /\ response' = NoResponse
    /\ UNCHANGED <<downloadVars, compressVars, convert_tasks, lines, admission>>

\* the lock section that writes task.process; then the locals are
\* initialised and the two reader threads started
ConvertSetProcess(task_id, duration_ms) ==
    /\ task_id \in DOMAIN convert
    /\ convert[task_id].pc = "set_process"
    /\ convert_tasks' = [convert_tasks EXCEPT ![task_id].process = TRUE]
    /\ convert' = [convert EXCEPT ![task_id].pc = "wait",
                                          ![task_id].duration_ms = duration_ms,
                                          ![task_id].stdout = AtReadline,
                                          ![task_id].stderr = AtReadline]
    /\ response' = NoResponse
    /\ UNCHANGED <<downloadVars, compressVars, lines, admission>>

\* the transcoder exits by itself
ConvertProcessExit(task_id, returncode) ==
    /\ task_id \in DOMAIN convert
    /\ convert[task_id].process = "running"
    /\ convert' = [convert EXCEPT ![task_id].process = "exited",
                                          ![task_id].returncode = returncode]
    /\ response' = NoResponse
    /\ UNCHANGED <<downloadVars, compressVars, convert_tasks, lines, admission>>

\* process.wait() returns, each join returns or times out after 0.2 s, and
\* the last lock section writes the outcome
ConvertFinish(task_id) ==
    /\ task_id \in DOMAIN convert
    /\ convert[task_id].pc = "wait"
    /\ convert[task_id].process = "exited"
    /\ convert_tasks' =
        [convert_tasks EXCEPT ![task_id] =
            FinalWrite(@, convert[task_id].returncode,
                       convert[task_id].last_error_lines, ConvertFailed)]
    /\ convert' = [convert EXCEPT ![task_id] = Returned(@)]
    /\ response' = NoResponse
    /\ UNCHANGED <<downloadVars, compressVars, lines, admission>>

\* _run_convert.handle_line from key, value = line.strip().split("=", 1): the
\* out_time branch assigns nothing and reads out_time_ms as the "time=" block
\* or an earlier line left it
ConvertKeyBlock(line, r) ==
    LET skip == Decision(FALSE, 0, r.out_time_ms)
        timed(ms) ==
            Decision(TRUE, LineProgress(ms, r.duration_ms, r.last_progress), ms)
    IN  IF line.key = "out_time_ms" THEN
            IF line.numeric THEN timed(OutTimeMsValue(line.num, r.duration_ms)) ELSE skip
        ELSE IF line.key = "out_time_us" THEN
            IF line.numeric THEN timed(line.num \div 1000) ELSE skip
        ELSE IF line.key = "out_time" THEN timed(r.out_time_ms)
        ELSE skip

\* a reader thread takes a line from its pipe and runs handle_line up to its
\* first lock section
ConvertReadLine(task_id, stream, line) ==
    /\ task_id \in DOMAIN convert
    /\ convert[task_id][stream].pc = "readline"
    /\ lines' = lines + 1
    /\ LET r == convert[task_id]
           d == IF TimeParses(line) THEN TimeBlock(line, r)
                ELSE ConvertKeyBlock(line, r)
           reader == IF TimeParses(line) THEN AfterDecision(d, "time_write", line)
                     ELSE AfterDecision(d, "key_write", NoLine)
       IN convert' =
            [convert EXCEPT ![task_id] =
                [SetOutTime(r, d.out_time_ms) EXCEPT
                    ![stream] = reader,
                    !.last_error_lines = AppendError(r, stream, line)]]
    /\ response' = NoResponse
    /\ UNCHANGED <<downloadVars, compressVars, convert_tasks, admission>>

\* the lock section of the "time=" block, last_progress = progress, and the
\* rest of handle_line up to its next lock section
ConvertTimeWrite(task_id, stream) ==
    /\ task_id \in DOMAIN convert
    /\ convert[task_id][stream].pc = "time_write"
    /\ LET r == convert[task_id]
           progress == r[stream].progress
           written == SetLastProgress(r, progress)
           d == ConvertKeyBlock(r[stream].line, written)
       IN /\ convert_tasks' = [convert_tasks EXCEPT ![task_id].progress = progress]
          /\ convert' =
                [convert EXCEPT ![task_id] =
                    [SetOutTime(written, d.out_time_ms) EXCEPT
                        ![stream] = AfterDecision(d, "key_write", NoLine)]]
    /\ response' = NoResponse
    /\ UNCHANGED <<downloadVars, compressVars, lines, admission>>

\* the lock section of a key branch and last_progress = progress
ConvertKeyWrite(task_id, stream) ==
    /\ task_id \in DOMAIN convert
    /\ convert[task_id][stream].pc = "key_write"
    /\ LET r == convert[task_id]
           progress == r[stream].progress
       IN /\ convert_tasks' = [convert_tasks EXCEPT ![task_id].progress = progress]
          /\ convert' =
                [convert EXCEPT ![task_id] =
                    [SetLastProgress(r, progress) EXCEPT ![stream] = AtReadline]]
    /\ response' = NoResponse
    /\ UNCHANGED <<downloadVars, compressVars, lines, admission>>

\* readline returns b'' once the process has exited and the pipe is drained
ConvertEof(task_id, stream) ==
    /\ task_id \in DOMAIN convert
    /\ convert[task_id][stream].pc = "readline"
    /\ convert[task_id].process = "exited"
    /\ convert' =
        [convert EXCEPT ![task_id] = Release([@ EXCEPT ![stream] = AtEof])]
    /\ response' = NoResponse
    /\ UNCHANGED <<downloadVars, compressVars, convert_tasks, lines, admission>>

\* the /convert/cancel handler
cancel_convert(task_id) ==
    /\ ~admission
    /\ IF task_id \notin DOMAIN convert_tasks
       THEN /\ response' = [op |-> "cancel_convert", id |-> task_id, code |-> 404]
            /\ UNCHANGED convertVars
       ELSE IF convert_tasks[task_id].status # PROCESSING
       THEN /\ response' = [op |-> "cancel_convert", id |-> task_id, code |-> 400]
            /\ UNCHANGED convertVars
       ELSE IF convert_tasks[task_id].process /\ convert[task_id].process = "running"
       THEN /\ convert' = [convert EXCEPT ![task_id] = Terminate(@)]
            /\ convert_tasks' = convert_tasks
            /\ response' = NoResponse
       ELSE /\ convert' = convert
            /\ convert_tasks' =
                [convert_tasks EXCEPT ![task_id] = CancelWrite(@)]
            /\ response' = [op |-> "cancel_convert", id |-> task_id, code |-> 200]
    /\ UNCHANGED <<downloadVars, compressVars, lines, admission>>

\* the handler, still inside its lock section, comes back from
\* process.wait(timeout=5) or kill(), writes the cancellation and returns
cancel_convert_wait(task_id) ==
    /\ task_id \in DOMAIN convert
    /\ convert[task_id].process = "terminating"
    /\ convert' = [convert EXCEPT ![task_id] = Terminated(@)]
    /\ convert_tasks' = [convert_tasks EXCEPT ![task_id] = CancelWrite(@)]
    /\ response' = [op |-> "cancel_convert", id |-> task_id, code |-> 200]
    /\ UNCHANGED <<downloadVars, compressVars, lines, admission>>

ConvertNext ==
    \/ \E input_is_file \in BOOLEAN : TotalTasks < MaxTasks /\ start_convert(input_is_file)
    \/ \E task_id \in TaskIds : \E ffmpeg \in BOOLEAN : ConvertBegin(task_id, ffmpeg)
    \/ \E task_id \in TaskIds : \E spawned \in BOOLEAN : ConvertPopen(task_id, spawned)
    \/ \E task_id \in TaskIds : \E duration_ms \in Durations :
            ConvertSetProcess(task_id, duration_ms)
    \/ \E task_id \in TaskIds : \E returncode \in ExitCodes :
            ConvertProcessExit(task_id, returncode)
    \/ \E task_id \in TaskIds : ConvertFinish(task_id)
    \/ \E task_id \in TaskIds : \E stream \in Streams : \E line \in StreamLines(stream) :
            lines < MaxLines /\ ConvertReadLine(task_id, stream, line)
    \/ \E task_id \in TaskIds : \E stream \in Streams : ConvertTimeWrite(task_id, stream)
    \/ \E task_id \in TaskIds : \E stream \in Streams : ConvertKeyWrite(task_id, stream)
    \/ \E task_id \in TaskIds : \E stream \in Streams : ConvertEof(task_id, stream)
    \/ \E task_id \in TaskIds : cancel_convert(task_id)

(***************************************************************************)
(* Status requests and event streams (main.py)                             *)
(*                                                                         *)
(* The three status handlers and the three event generators have the same  *)
(* shape: the task object is fetched under the lock, and its fields are    *)
(* then read one by one outside it.  The handlers run on the event loop,   *)
(* so between the first and the last read of one payload no other handler  *)
(* runs, while worker, hook, runner and reader threads do.  The observer   *)
(* is one such request; seen collects the values the task has had while    *)
(* the payload was being read.                                             *)
(***************************************************************************)
\* the fields of a task that a payload reports
View(task) == [status |-> task.status, progress |-> task.progress, error |-> task.error]

NoData == [status |-> "", progress |-> 0, error |-> NoError]

NoObserver ==
    [kind |-> "none", id |-> 0, mode |-> "none", pc |-> "idle",
     data |-> NoData, seen |-> {}, events |-> <<>>]

\* the registries observed in this model; the compress and convert handlers
\* repeat the download ones line by line
ObservedKinds == {"download"}
Modes == {"status", "events"}

Registry(kind) ==
    IF kind = "download" THEN tasks
    ELSE IF kind = "compress" THEN compression_tasks
    ELSE convert_tasks

\* the task the observer holds a reference to
Watched == Registry(observer.kind)[observer.id]

\* get_task_status / task_events and their compress and convert twins up to
\* the 404 check
Observe(kind, id, mode) ==
    /\ observer.pc = "idle"
    /\ ~admission
    /\ IF id \notin DOMAIN Registry(kind)
       THEN /\ observer' = observer
            /\ response' = [op |-> mode, id |-> id, code |-> 404]
       ELSE /\ observer' = [NoObserver EXCEPT !.kind = kind, !.id = id,
                                              !.mode = mode, !.pc = "read_status"]
            /\ response' = NoResponse
    /\ UNCHANGED <<downloadVars, compressVars, convertVars, lines, admission>>

\* the generator wakes up (or the status handler goes on), fetches the task
\* and reads task.status into the payload
ReadStatus ==
    /\ observer.pc = "read_status"
    /\ ~admission
    /\ observer' = [observer EXCEPT !.pc = "read_progress",
                                    !.data = [NoData EXCEPT !.status = Watched.status],
                                    !.seen = {View(Watched)}]
    /\ response' = NoResponse
    /\ UNCHANGED <<downloadVars, compressVars, convertVars, lines, admission>>

\* task.progress is read into the payload
ReadProgress ==
    /\ observer.pc = "read_progress"
    /\ observer' = [observer EXCEPT !.pc = "read_error",
                                    !.data.progress = Watched.progress,
                                    !.seen = @ \cup {View(Watched)}]
    /\ response' = NoResponse
    /\ UNCHANGED <<downloadVars, compressVars, convertVars, lines, admission>>

\* task.error is read into the payload; the status handler returns it, the
\* generator yields it as an event
ReadError ==
    /\ observer.pc = "read_error"
    /\ LET data == [observer.data EXCEPT !.error = Watched.error]
           read == [observer EXCEPT !.data = data, !.seen = @ \cup {View(Watched)}]
       IN observer' =
            IF observer.mode = "status"
            THEN [read EXCEPT !.pc = "returned"]
            ELSE [read EXCEPT !.pc = "yielded", !.events = Append(@, data.status)]
    /\ response' = [op |-> observer.mode, id |-> observer.id, code |-> 200]
    /\ UNCHANGED <<downloadVars, compressVars, convertVars, lines, admission>>

\* the payload has gone out: the status handler is over, the generator
\* waits to be resumed after its yield
Delivered ==
    observer' =
        IF observer.pc = "returned" THEN NoObserver
        ELSE IF observer.pc = "yielded"
        THEN [observer EXCEPT !.pc = "check", !.data = NoData, !.seen = {}]
        ELSE observer

\* the generator is resumed after its yield: it stops if task.status is
\* COMPLETED or ERROR now, and sleeps otherwise
Check ==
    /\ observer.pc = "check"
    /\ ~admission
    /\ observer' = [observer EXCEPT !.pc = IF Watched.status \in {COMPLETED, ERROR}
                                           THEN "closed" ELSE "read_status"]
    /\ response' = NoResponse
    /\ UNCHANGED <<downloadVars, compressVars, convertVars, lines, admission>>

ObserveNext ==
    \/ \E kind \in ObservedKinds : \E id \in TaskIds : \E mode \in Modes :
            Observe(kind, id, mode)
    \/ Len(observer.events) < MaxPolls /\ ReadStatus
    \/ ReadProgress
    \/ ReadError
    \/ Check

\* a cancel handler is inside process.wait(timeout=5): it holds its kind's
\* lock and keeps the event loop
CancelWaiting ==
    \/ \E t \in DOMAIN compression : compression[t].process = "terminating"
    \/ \E t \in DOMAIN convert : convert[t].process = "terminating"

\* a payload is being read: the event loop is inside the observer
Reading == observer.pc \in {"read_progress", "read_error"}

\* a step of the program with no observer in it
\* no pipe content is being fed to the two parsers
NoReplay ==
    [input |-> <<>>, read |-> [compress |-> 0, convert |-> 0],
     written |-> [compress |-> <<>>, convert |-> <<>>]]

Quiet == UNCHANGED <<observer, pathVars, encoderVars, threads, replay>>

\* the watched task after the step
WatchedNext ==
    IF observer.kind = "download" THEN tasks'[observer.id]
    ELSE IF observer.kind = "compress" THEN compression_tasks'[observer.id]
    ELSE convert_tasks'[observer.id]

\* a step of the program next to the observer: while a payload is being
\* read only threads step, and the task's new values are added to seen
Watch ==
    IF Reading
    THEN /\ response' = NoResponse
         /\ admission' = admission
         /\ ~CancelWaiting'
         /\ observer' = [observer EXCEPT !.seen = @ \cup {View(WatchedNext)}]
    ELSE observer' = observer

Init ==
    /\ observer = NoObserver
    /\ files = {}
    /\ output_path = NoPaths
    /\ compression_encoders = NoEncoders
    /\ probes = 0
    /\ startup = "import"
    /\ replay = NoReplay
    /\ threads = NoThreads
    /\ tasks = <<>>
    /\ worker = <<>>
    /\ ticks = 0
    /\ compression_tasks = <<>>
    /\ compression = <<>>
    /\ convert_tasks = <<>>
    /\ convert = <<>>
    /\ lines = 0
    /\ admission = FALSE
    /\ response = NoResponse

\* the handler's return value goes out to the client; nothing else reads it,
\* and it is gone before the next step is looked at
Respond ==
    /\ response # NoResponse
    /\ response' = NoResponse
    /\ UNCHANGED <<downloadVars, compressVars, convertVars, lines, admission>>

\* the wait of a cancel handler ends
CancelWait ==
    \E task_id \in TaskIds : cancel_compression_wait(task_id) \/ cancel_convert_wait(task_id)

\* no handler has a response to hand out or a process to wait for; what the
\* other threads do meanwhile is put after the handler's return
Idle == response = NoResponse /\ ~CancelWaiting

Next ==
    \/ Respond /\ Quiet
    \/ CancelWait /\ Quiet
    \/ Idle /\ DownloadNext /\ Quiet
    \/ Idle /\ CompressionNext /\ Quiet
    \/ Idle /\ ConvertNext /\ Quiet

Spec == Init /\ [][Next]_vars

\* the download manager alone
SpecDownload == Init /\ [][(Respond \/ (Idle /\ DownloadNext)) /\ Quiet]_vars

\* the download manager, and its hook also called for unknown identifiers
HookNext ==
    \/ DownloadNext
    \/ \E task_id \in TaskIds : \E d \in HookEvents :
            ticks < MaxTicks /\ _progress_hook_unknown(task_id, d)

SpecHook == Init /\ [][(Respond \/ (Idle /\ HookNext)) /\ Quiet]_vars

\* the download manager with more submissions than the pool has threads
PoolNext ==
    \/ Cardinality(DOMAIN tasks) < MaxDownloads /\ start_download
    \/ \E task_id \in 1 .. MaxDownloads : DownloadWorkerStart(task_id)
    \/ \E task_id \in 1 .. MaxDownloads : \E d \in HookEvents :
            ticks < MaxTicks /\ _progress_hook(task_id, d)
    \/ \E task_id \in 1 .. MaxDownloads : DownloadWorkerComplete(task_id)
    \/ \E task_id \in 1 .. MaxDownloads : DownloadWorkerExcept(task_id)
    \/ \E task_id \in 1 .. MaxDownloads : cancel_task(task_id)

SpecPool == Init /\ [][(Respond \/ (Idle /\ PoolNext)) /\ Quiet]_vars

\* the download manager when identifiers may repeat
UuidNext ==
    \/ \E task_id \in TaskIds : start_download_uuid(task_id)
    \/ \E task_id \in TaskIds : DownloadWorkerStart(task_id)
    \/ \E task_id \in TaskIds : \E d \in HookEvents :
            ticks < MaxTicks /\ _progress_hook(task_id, d)
    \/ \E task_id \in TaskIds : DownloadWorkerComplete(task_id)
    \/ \E task_id \in TaskIds : DownloadWorkerExcept(task_id)
    \/ \E task_id \in TaskIds : cancel_task(task_id)

SpecUuid == Init /\ [][(Respond \/ (Idle /\ UuidNext)) /\ Quiet]_vars

\* the two parsers alone: one compress and one convert task in progress,
\* each with a known duration, and a transcoder that writes out_time_ms and
\* out_time_us lines to stdout
ParseDurations == {5000, 10000}

OutTimeLine(key, v) == Line(key \o "=" \o ToString(v), key, TRUE, v, "", FALSE, <<>>)

ParseLines ==
    {OutTimeLine("out_time_ms", v) :
        v \in {-5000, 0, 2500, 5000, 10000, 20000, 100000, 110000, 5000000}}
    \cup {OutTimeLine("out_time_us", v) : v \in {0, 10000, 5000000, 20000000}}

RunnerReading(duration_ms) ==
    [Runner EXCEPT !.pc = "wait", !.process = "running", !.duration_ms = duration_ms,
                   !.stdout = AtReadline, !.stderr = AtReadline]

InitParse ==
    /\ observer = NoObserver
    /\ files = {}
    /\ output_path = NoPaths
    /\ compression_encoders = NoEncoders
    /\ probes = 0
    /\ startup = "import"
    /\ replay = NoReplay
    /\ threads = NoThreads
    /\ tasks = <<>>
    /\ worker = <<>>
    /\ ticks = 0
    /\ compression_tasks =
            <<[CompressionTask EXCEPT !.status = COMPRESSING, !.process = TRUE]>>
    /\ \E duration_ms \in ParseDurations : compression = <<RunnerReading(duration_ms)>>
    /\ convert_tasks = <<[ConvertTask EXCEPT !.status = PROCESSING, !.process = TRUE]>>
    /\ \E duration_ms \in ParseDurations : convert = <<RunnerReading(duration_ms)>>
    /\ lines = 0
    /\ admission = FALSE
    /\ response = NoResponse

ParseNext ==
    \/ \E line \in ParseLines :
            lines < MaxParseLines /\ CompressionReadLine(1, "stdout", line)
    \/ CompressionKeyWrite(1, "stdout")
    \/ \E line \in ParseLines :
            lines < MaxParseLines /\ ConvertReadLine(1, "stdout", line)
    \/ ConvertKeyWrite(1, "stdout")

SpecParse == InitParse /\ [][ParseNext /\ Quiet]_vars

\* the readers alone when the duration is unknown: one compress and one
\* convert task in progress, each with its stdout and its stderr reader
InitHeuristic ==
    /\ observer = NoObserver
    /\ files = {}
    /\ output_path = NoPaths
    /\ compression_encoders = NoEncoders
    /\ probes = 0
    /\ startup = "import"
    /\ replay = NoReplay
    /\ threads = NoThreads
    /\ tasks = <<>>
    /\ worker = <<>>
    /\ ticks = 0
    /\ compression_tasks =
            <<[CompressionTask EXCEPT !.status = COMPRESSING, !.process = TRUE]>>
    /\ compression = <<RunnerReading(0)>>
    /\ convert_tasks = <<[ConvertTask EXCEPT !.status = PROCESSING, !.process = TRUE]>>
    /\ convert = <<RunnerReading(0)>>
    /\ lines = 0
    /\ admission = FALSE
    /\ response = NoResponse

HeuristicNext ==
    \/ \E stream \in Streams : \E line \in StreamLines(stream) :
            lines < MaxParseLines /\ CompressionReadLine(1, stream, line)
    \/ \E stream \in Streams : CompressionTimeWrite(1, stream)
    \/ \E stream \in Streams : CompressionKeyWrite(1, stream)
    \/ \E stream \in Streams : CompressionEof(1, stream)
    \/ \E returncode \in ExitCodes : CompressionProcessExit(1, returncode)
    \/ CompressionFinish(1)
    \/ \E stream \in Streams : \E line \in StreamLines(stream) :
            lines < MaxParseLines /\ ConvertReadLine(1, stream, line)
    \/ \E stream \in Streams : ConvertTimeWrite(1, stream)
    \/ \E stream \in Streams : ConvertKeyWrite(1, stream)
    \/ \E stream \in Streams : ConvertEof(1, stream)
    \/ \E returncode \in ExitCodes : ConvertProcessExit(1, returncode)
    \/ ConvertFinish(1)

SpecHeuristic == InitHeuristic /\ [][HeuristicNext /\ Quiet]_vars

\* the stderr reader alone: one task of one kind in progress, and a
\* transcoder that writes its log to stderr, exits and may be cancelled
InitTail ==
    /\ observer = NoObserver
    /\ files = {}
    /\ output_path = NoPaths
    /\ compression_encoders = NoEncoders
    /\ probes = 0
    /\ startup = "import"
    /\ replay = NoReplay
    /\ threads = NoThreads
    /\ tasks = <<>>
    /\ worker = <<>>
    /\ ticks = 0
    /\ \E kind \in {"compress", "convert"} : \E duration_ms \in Durations :
        IF kind = "compress"
        THEN /\ compression_tasks =
                    <<[CompressionTask EXCEPT !.status = COMPRESSING, !.process = TRUE]>>
             /\ compression = <<RunnerReading(duration_ms)>>
             /\ convert_tasks = <<>>
             /\ convert = <<>>
        ELSE /\ compression_tasks = <<>>
             /\ compression = <<>>
             /\ convert_tasks =
                    <<[ConvertTask EXCEPT !.status = PROCESSING, !.process = TRUE]>>
             /\ convert = <<RunnerReading(duration_ms)>>
    /\ lines = 0
    /\ admission = FALSE
    /\ response = NoResponse

TailNext ==
    \/ \E line \in StderrLines :
            lines < MaxTailLines /\ CompressionReadLine(1, "stderr", line)
    \/ CompressionTimeWrite(1, "stderr")
    \/ CompressionKeyWrite(1, "stderr")
    \/ \E stream \in Streams : CompressionEof(1, stream)
    \/ \E returncode \in ExitCodes : CompressionProcessExit(1, returncode)
    \/ CompressionFinish(1)
    \/ cancel_compression(1)
    \/ \E line \in StderrLines :
            lines < MaxTailLines /\ ConvertReadLine(1, "stderr", line)
    \/ ConvertTimeWrite(1, "stderr")
    \/ ConvertKeyWrite(1, "stderr")
    \/ \E stream \in Streams : ConvertEof(1, stream)
    \/ \E returncode \in ExitCodes : ConvertProcessExit(1, returncode)
    \/ ConvertFinish(1)
    \/ cancel_convert(1)

SpecTail ==
    InitTail /\ [][(Respond \/ CancelWait \/ (Idle /\ TailNext)) /\ Quiet]_vars

\* the two parsers fed the same pipe content, each by one reader: one
\* compress and one convert task in progress on inputs of the same known
\* duration, and every line of the machine progress stream and of the log
ReplayLines ==
    StdoutLines \cup StderrLines
        \cup {OutTimeLine("out_time_ms", 2500), OutTimeLine("out_time_ms", 110000)}

ReplayInputs == UNION {[1 .. n -> ReplayLines] : n \in 0 .. MaxParseLines}

InitEquiv ==
    /\ observer = NoObserver
    /\ files = {}
    /\ output_path = NoPaths
    /\ compression_encoders = NoEncoders
    /\ probes = 0
    /\ startup = "import"
    /\ threads = NoThreads
    /\ \E input \in ReplayInputs : replay = [NoReplay EXCEPT !.input = input]
    /\ tasks = <<>>
    /\ worker = <<>>
    /\ ticks = 0
    /\ compression_tasks =
            <<[CompressionTask EXCEPT !.status = COMPRESSING, !.process = TRUE]>>
    /\ convert_tasks = <<[ConvertTask EXCEPT !.status = PROCESSING, !.process = TRUE]>>
    /\ \E duration_ms \in ParseDurations :
            /\ compression = <<RunnerReading(duration_ms)>>
            /\ convert = <<RunnerReading(duration_ms)>>
    /\ lines = 0
    /\ admission = FALSE
    /\ response = NoResponse

\* the reader takes the next line of the content; a lock section of
\* handle_line writes the progress, and the value is noted
EquivNext ==
    \/ /\ replay.read.compress < Len(replay.input)
       /\ CompressionReadLine(1, "stdout", replay.input[replay.read.compress + 1])
       /\ replay' = [replay EXCEPT !.read.compress = @ + 1]
    \/ /\ CompressionTimeWrite(1, "stdout")
       /\ replay' = [replay EXCEPT !.written.compress =
                                        Append(@, compression_tasks'[1].progress)]
    \/ /\ CompressionKeyWrite(1, "stdout")
       /\ replay' = [replay EXCEPT !.written.compress =
                                        Append(@, compression_tasks'[1].progress)]
    \/ /\ replay.read.convert < Len(replay.input)
       /\ ConvertReadLine(1, "stdout", replay.input[replay.read.convert + 1])
       /\ replay' = [replay EXCEPT !.read.convert = @ + 1]
    \/ /\ ConvertTimeWrite(1, "stdout")
       /\ replay' = [replay EXCEPT !.written.convert =
                                        Append(@, convert_tasks'[1].progress)]
    \/ /\ ConvertKeyWrite(1, "stdout")
       /\ replay' = [replay EXCEPT !.written.convert =
                                        Append(@, convert_tasks'[1].progress)]

SpecEquiv ==
    InitEquiv /\ [][ /\ EquivNext
                     /\ UNCHANGED <<observer, pathVars, encoderVars, threads>> ]_vars

\* _run_compression assigns task.output_path in the lock section that
\* writes COMPRESSING; the path was built from the files found before
CompressionPath(task_id, ffmpeg, now) ==
    /\ files' = files
    /\ output_path' =
        IF ffmpeg
        THEN [output_path EXCEPT
                !.compress = (task_id :> _build_output_path(files, now)) @@ @]
        ELSE output_path

\* _run_convert assigns task.output_path in the lock section that writes
\* "processing"
ConvertPath(task_id, ffmpeg, now) ==
    /\ files' = files
    /\ output_path' =
        IF ffmpeg
        THEN [output_path EXCEPT
                !.convert = (task_id :> _build_convert_output_path(files, now)) @@ @]
        ELSE output_path

\* the transcoder, started with -y and output_path as its last argument,
\* creates its output file
OutputCreated(runners, paths) ==
    /\ \E task_id \in DOMAIN paths :
            /\ runners[task_id].process = "running"
            /\ paths[task_id] \notin files
            /\ files' = files \cup {paths[task_id]}
    /\ response' = NoResponse
    /\ UNCHANGED <<downloadVars, compressVars, convertVars, lines, admission,
                   output_path>>

\* the files the output directory may hold before the first submission:
\* the first k candidates, all candidates but one, and all of them with or
\* without a timestamp path
ExistingIndexes ==
    {1 .. k : k \in 0 .. RangeStop - 1}
    \cup {(1 .. RangeStop - 1) \ {j} : j \in 1 .. RangeStop - 1}
    \cup {(1 .. RangeStop - 1) \cup {now} : now \in Timestamps}
    \cup {{1, 3}}

InitPaths ==
    /\ observer = NoObserver
    /\ \E indexes \in ExistingIndexes :
            files = {Path(suffix, index) :
                        suffix \in {"compressed", "converted"}, index \in indexes}
    /\ output_path = NoPaths
    /\ compression_encoders = NoEncoders
    /\ probes = 0
    /\ startup = "import"
    /\ replay = NoReplay
    /\ threads = NoThreads
    /\ tasks = <<>>
    /\ worker = <<>>
    /\ ticks = 0
    /\ compression_tasks = <<>>
    /\ compression = <<>>
    /\ convert_tasks = <<>>
    /\ convert = <<>>
    /\ lines = 0
    /\ admission = FALSE
    /\ response = NoResponse

\* the submissions and the runners up to the lock section that writes
\* the output path
BuildNext ==
    \/ /\ UNCHANGED pathVars
       /\ \/ \E input_is_file \in BOOLEAN :
                TotalTasks < MaxTasks /\ start_compression(input_is_file)
          \/ start_compression_create
          \/ \E input_is_file \in BOOLEAN :
                TotalTasks < MaxTasks /\ start_convert(input_is_file)
    \/ \E task_id \in TaskIds : \E ffmpeg \in BOOLEAN : \E now \in Timestamps :
            CompressionBegin(task_id, ffmpeg) /\ CompressionPath(task_id, ffmpeg, now)
    \/ \E task_id \in TaskIds : \E ffmpeg \in BOOLEAN : \E now \in Timestamps :
            ConvertBegin(task_id, ffmpeg) /\ ConvertPath(task_id, ffmpeg, now)

\* the path builders over the directories of InitPaths
SpecBuildPath ==
    InitPaths /\ [][ \/ Respond /\ Quiet
                     \/ Idle /\ BuildNext
                            /\ UNCHANGED <<observer, encoderVars, threads, replay>> ]_vars

\* the two transcoding registries without the content of the pipes, with
\* the output paths and the output files
PathNext ==
    \/ BuildNext
    \/ /\ UNCHANGED pathVars
       /\ \/ \E task_id \in TaskIds : \E spawned \in BOOLEAN :
                CompressionPopen(task_id, spawned)
          \/ \E task_id \in TaskIds : \E duration_ms \in Durations :
                CompressionSetProcess(task_id, duration_ms)
          \/ \E task_id \in TaskIds : \E returncode \in ExitCodes :
                CompressionProcessExit(task_id, returncode)
          \/ \E task_id \in TaskIds : CompressionFinish(task_id)
          \/ \E task_id \in TaskIds : \E stream \in Streams : CompressionEof(task_id, stream)
          \/ \E task_id \in TaskIds : cancel_compression(task_id)
          \/ \E task_id \in TaskIds : \E spawned \in BOOLEAN :
                ConvertPopen(task_id, spawned)
          \/ \E task_id \in TaskIds : \E duration_ms \in Durations :
                ConvertSetProcess(task_id, duration_ms)
          \/ \E task_id \in TaskIds : \E returncode \in ExitCodes :
                ConvertProcessExit(task_id, returncode)
          \/ \E task_id \in TaskIds : ConvertFinish(task_id)
          \/ \E task_id \in TaskIds : \E stream \in Streams : ConvertEof(task_id, stream)
          \/ \E task_id \in TaskIds : cancel_convert(task_id)
    \/ OutputCreated(compression, output_path.compress)
    \/ OutputCreated(convert, output_path.convert)

SpecPaths ==
    Init /\ [][ \/ (Respond \/ CancelWait) /\ Quiet
                \/ Idle /\ PathNext
                       /\ UNCHANGED <<observer, encoderVars, threads, replay>> ]_vars

\* the encoder detection alone
SpecEncoders ==
    Init /\ [][ /\ \/ Respond /\ UNCHANGED encoderVars
                   \/ Idle /\ EncoderNext
                /\ UNCHANGED <<observer, pathVars, threads, replay>> ]_vars

\* the lock sections of one kind alone
InitLocks ==
    /\ \E kind \in {"download", "compress", "convert"} :
            threads = [NoThreads EXCEPT !.kind = kind]
    /\ observer = NoObserver
    /\ files = {}
    /\ output_path = NoPaths
    /\ compression_encoders = NoEncoders
    /\ probes = 0
    /\ startup = "import"
    /\ replay = NoReplay
    /\ tasks = <<>>
    /\ worker = <<>>
    /\ ticks = 0
    /\ compression_tasks = <<>>
    /\ compression = <<>>
    /\ convert_tasks = <<>>
    /\ convert = <<>>
    /\ lines = 0
    /\ admission = FALSE
    /\ response = NoResponse

LockNext ==
    \/ \E thread \in Threads : \E function \in Functions(threads.kind, thread) :
            Call(thread, function)
    \/ \E thread \in Threads : Execute(thread)

SpecLocks ==
    InitLocks /\ [][ /\ LockNext
                     /\ UNCHANGED <<downloadVars, compressVars, convertVars, lines,
                                    admission, response, observer, pathVars,
                                    encoderVars, replay>> ]_vars

\* the compression registry alone
SpecCompression ==
    Init /\ [][(Respond \/ CancelWait \/ (Idle /\ CompressionNext)) /\ Quiet]_vars

\* the compression registry without the content of the pipes: the reader
\* threads write progress and their own locals only, so the statuses, which
\* decide admission, are those of SpecCompression
AdmissionNext ==
    \/ \E input_is_file \in BOOLEAN :
            TotalTasks < MaxTasks /\ start_compression(input_is_file)
    \/ start_compression_create
    \/ \E task_id \in TaskIds : \E ffmpeg \in BOOLEAN : CompressionBegin(task_id, ffmpeg)
    \/ \E task_id \in TaskIds : \E spawned \in BOOLEAN : CompressionPopen(task_id, spawned)
    \/ \E task_id \in TaskIds : \E duration_ms \in Durations :
            CompressionSetProcess(task_id, duration_ms)
    \/ \E task_id \in TaskIds : \E returncode \in ExitCodes :
            CompressionProcessExit(task_id, returncode)
    \/ \E task_id \in TaskIds : CompressionFinish(task_id)
    \/ \E task_id \in TaskIds : \E stream \in Streams : CompressionEof(task_id, stream)
    \/ \E task_id \in TaskIds : cancel_compression(task_id)

SpecAdmission ==
    Init /\ [][(Respond \/ CancelWait \/ (Idle /\ AdmissionNext)) /\ Quiet]_vars

\* the convert registry alone
SpecConvert ==
    Init /\ [][(Respond \/ CancelWait \/ (Idle /\ ConvertNext)) /\ Quiet]_vars

\* the two transcoding registries
SpecTranscode ==
    Init /\ [][(Respond \/ CancelWait \/ (Idle /\ CompressionNext)
                    \/ (Idle /\ ConvertNext)) /\ Quiet]_vars

\* the steps the program's own threads take for one task: the pool starts
\* the worker and the engine call returns or raises; the runner goes on, the
\* transcoder exits, the readers write what they have read and see the end
\* of their pipe
DownloadThread(task_id) ==
    \/ DownloadWorkerStart(task_id)
    \/ DownloadWorkerComplete(task_id)
    \/ DownloadWorkerExcept(task_id)

CompressionThread(task_id) ==
    \/ \E ffmpeg \in BOOLEAN : CompressionBegin(task_id, ffmpeg)
    \/ \E spawned \in BOOLEAN : CompressionPopen(task_id, spawned)
    \/ \E duration_ms \in Durations : CompressionSetProcess(task_id, duration_ms)
    \/ \E returncode \in ExitCodes : CompressionProcessExit(task_id, returncode)
    \/ CompressionFinish(task_id)
    \/ \E stream \in Streams : CompressionTimeWrite(task_id, stream)
    \/ \E stream \in Streams : CompressionKeyWrite(task_id, stream)
    \/ \E stream \in Streams : CompressionEof(task_id, stream)

ConvertThread(task_id) ==
    \/ \E ffmpeg \in BOOLEAN : ConvertBegin(task_id, ffmpeg)
    \/ \E spawned \in BOOLEAN : ConvertPopen(task_id, spawned)
    \/ \E duration_ms \in Durations : ConvertSetProcess(task_id, duration_ms)
    \/ \E returncode \in ExitCodes : ConvertProcessExit(task_id, returncode)
    \/ ConvertFinish(task_id)
    \/ \E stream \in Streams : ConvertTimeWrite(task_id, stream)
    \/ \E stream \in Streams : ConvertKeyWrite(task_id, stream)
    \/ \E stream \in Streams : ConvertEof(task_id, stream)

\* what the engines hand to the program: progress ticks and lines
EngineInput ==
    \/ \E task_id \in TaskIds : \E d \in HookEvents :
            ticks < MaxTicks /\ _progress_hook(task_id, d)
    \/ \E task_id \in TaskIds : \E stream \in Streams : \E line \in StreamLines(stream) :
            lines < MaxLines /\ CompressionReadLine(task_id, stream, line)
    \/ \E task_id \in TaskIds : \E stream \in Streams : \E line \in StreamLines(stream) :
            lines < MaxLines /\ ConvertReadLine(task_id, stream, line)

\* the three submissions; the clients send nothing else
Submit ==
    \/ TotalTasks < MaxTasks /\ start_download
    \/ \E input_is_file \in BOOLEAN :
            TotalTasks < MaxTasks /\ start_compression(input_is_file)
    \/ \E input_is_file \in BOOLEAN :
            TotalTasks < MaxTasks /\ start_convert(input_is_file)

LiveNext ==
    \/ Respond
    \/ Idle /\ Submit
    \/ Idle /\ start_compression_create
    \/ Idle /\ EngineInput
    \/ \E task_id \in TaskIds : Idle /\ DownloadThread(task_id)
    \/ \E task_id \in TaskIds : Idle /\ CompressionThread(task_id)
    \/ \E task_id \in TaskIds : Idle /\ ConvertThread(task_id)

\* every handler returns, every thread that can take a step takes one in
\* the end, and every call of an engine returns or raises.  A thread's steps
\* are put after the return of the handler that is running, so a thread
\* that stays runnable is one whose step is enabled again and again.
Fairness ==
    /\ WF_vars(Respond /\ Quiet)
    /\ SF_vars(Idle /\ start_compression_create /\ Quiet)
    /\ \A task_id \in TaskIds : SF_vars(Idle /\ DownloadThread(task_id) /\ Quiet)
    /\ \A task_id \in TaskIds : SF_vars(Idle /\ CompressionThread(task_id) /\ Quiet)
    /\ \A task_id \in TaskIds : SF_vars(Idle /\ ConvertThread(task_id) /\ Quiet)

SpecLive == Init /\ [][LiveNext /\ Quiet]_vars /\ Fairness

\* the download manager with status requests and one event stream
SpecObserve ==
    Init /\ [][ /\ \/ Respond /\ Delivered
                   \/ Idle /\ DownloadNext /\ Watch
                   \/ Idle /\ ObserveNext
                /\ UNCHANGED <<pathVars, encoderVars, threads, replay>> ]_vars
(***************************************************************************)
(* Properties                                                              *)
(***************************************************************************)
Terminal == {COMPLETED, ERROR}

Compressing == {t \in DOMAIN compression_tasks : compression_tasks[t].status = COMPRESSING}

\* the step is start_compression's scan for a request whose input file exists
ValidCompressScan ==
    /\ ~admission
    /\ \/ admission'
       \/ response'.op = "start_compression" /\ response'.code # 400

\* C1: at most one compress task is COMPRESSING in any reachable state.
\* The scan looks for COMPRESSING, a status the runner writes only later, so
\* two submissions in a row are both admitted and both runners get there.
C1_SingleCompressing == Cardinality(Compressing) <= 1

\* C2: a compress submission whose scan finds a task COMPRESSING is answered
\* 409, creates no task and schedules no runner.
C2_BusyRejected ==
    [][ (ValidCompressScan /\ Compressing # {}) =>
            /\ response' = [op |-> "start_compression", id |-> 0, code |-> 409]
            /\ ~admission'
            /\ compression_tasks' = compression_tasks
            /\ compression' = compression ]_vars

\* a submission was just rejected while a task was COMPRESSING
C2_Witness ==
    /\ response = [op |-> "start_compression", id |-> 0, code |-> 409]
    /\ Compressing # {}

\* C3: when every task of the compress registry is COMPLETED or ERROR, a
\* submission for an existing input file passes the scan, and a submission
\* that passed the scan gets a new task in PENDING and the answer 200.
C3_AdmittedAfterTerminal ==
    [][ /\ (ValidCompressScan /\ \A t \in DOMAIN compression_tasks :
                                    compression_tasks[t].status \in Terminal)
            => (admission' /\ response' = NoResponse)
        /\ (admission /\ ~admission') =>
            LET task_id == Cardinality(DOMAIN compression_tasks) + 1 IN
            /\ DOMAIN compression_tasks' = DOMAIN compression_tasks \cup {task_id}
            /\ compression_tasks'[task_id].status = PENDING
            /\ \A t \in DOMAIN compression_tasks :
                    compression_tasks'[t] = compression_tasks[t]
            /\ compression'[task_id].pc = "queued"
            /\ response' = [op |-> "start_compression", id |-> task_id, code |-> 200]
      ]_vars

\* a second submission was just admitted after the first task was cancelled
C3_Witness ==
    /\ response.op = "start_compression" /\ response.code = 200
    /\ compression_tasks[response.id].status = PENDING
    /\ \E t \in DOMAIN compression_tasks :
            /\ t # response.id
            /\ compression_tasks[t].status = ERROR
            /\ compression_tasks[t].error = Cancelled

\* C4: for the tasks of every kind, an error field equal to "Cancelled by
\* user" is not changed by any later step.
C4_CancelledErrorKept ==
    [][ /\ \A t \in DOMAIN tasks :
                tasks[t].error = Cancelled => tasks'[t].error = Cancelled
        /\ \A t \in DOMAIN compression_tasks :
                compression_tasks[t].error = Cancelled
                    => compression_tasks'[t].error = Cancelled
        /\ \A t \in DOMAIN convert_tasks :
                convert_tasks[t].error = Cancelled
                    => convert_tasks'[t].error = Cancelled ]_vars

\* C5: for the tasks of every kind, a task whose error field is "Cancelled
\* by user" has status ERROR.
C5_CancelledIsError ==
    /\ \A t \in DOMAIN tasks : tasks[t].error = Cancelled => tasks[t].status = ERROR
    /\ \A t \in DOMAIN compression_tasks :
            compression_tasks[t].error = Cancelled => compression_tasks[t].status = ERROR
    /\ \A t \in DOMAIN convert_tasks :
            convert_tasks[t].error = Cancelled => convert_tasks[t].status = ERROR

\* C6: every task of every kind has 0.0 <= progress <= 100.0.
C6_ProgressInRange ==
    /\ \A t \in DOMAIN tasks : 0 <= tasks[t].progress /\ tasks[t].progress <= P100
    /\ \A t \in DOMAIN compression_tasks :
            0 <= compression_tasks[t].progress /\ compression_tasks[t].progress <= P100
    /\ \A t \in DOMAIN convert_tasks :
            0 <= convert_tasks[t].progress /\ convert_tasks[t].progress <= P100

\* C7: every task of every kind whose status is COMPLETED has progress 100.0.
C7_CompletedIsFull ==
    /\ \A t \in DOMAIN tasks :
            tasks[t].status = COMPLETED => tasks[t].progress = P100
    /\ \A t \in DOMAIN compression_tasks :
            compression_tasks[t].status = COMPLETED => compression_tasks[t].progress = P100
    /\ \A t \in DOMAIN convert_tasks :
            convert_tasks[t].status = COMPLETED => convert_tasks[t].progress = P100

\* the place of a download status in PENDING -> ... -> COMPLETED
DownloadRank(status) ==
    CASE status = PENDING -> 1
      [] status = FETCHING_INFO -> 2
      [] status = DOWNLOADING -> 3
      [] status = PROCESSING -> 4
      [] status = COMPLETED -> 5
      [] OTHER -> 0

\* C8: a download task's status stays, moves forward along PENDING ->
\* FETCHING_INFO -> DOWNLOADING -> PROCESSING -> COMPLETED, or goes from a
\* non-terminal status to ERROR; it never moves backwards and never leaves
\* COMPLETED or ERROR.
C8_DownloadTransitions ==
    [][ \A t \in DOMAIN tasks :
            LET a == tasks[t].status
                b == tasks'[t].status
            IN  \/ a = b
                \/ a \notin Terminal /\ b = ERROR
                \/ a \notin Terminal /\ b # ERROR /\ DownloadRank(a) < DownloadRank(b)
      ]_vars

\* the status changes a transcoding task may make
TranscodeStep(old, new, in_progress, tool_missing) ==
    LET a == old.status
        b == new.status
    IN  \/ a = b
        \/ a = PENDING /\ b = in_progress
        \/ a = in_progress /\ b \in Terminal
        \/ a = PENDING /\ b = ERROR /\ new.error = Msg(tool_missing)

\* C9: a compress or convert task's status changes only PENDING ->
\* in-progress, in-progress -> COMPLETED or ERROR, or PENDING -> ERROR with
\* the tool-missing message; a COMPLETED or ERROR status never changes.
C9_TranscodeTransitions ==
    [][ /\ \A t \in DOMAIN compression_tasks :
                TranscodeStep(compression_tasks[t], compression_tasks'[t],
                              COMPRESSING, FfmpegMissingCompress)
        /\ \A t \in DOMAIN convert_tasks :
                TranscodeStep(convert_tasks[t], convert_tasks'[t],
                              PROCESSING, FfmpegMissingConvert) ]_vars

\* a cancelled compression whose runner has since run its last lock section,
\* next to a conversion that completed
C9_Witness ==
    /\ \E t \in DOMAIN compression_tasks :
            /\ compression_tasks[t].error = Cancelled
            /\ compression_tasks[t].status = ERROR
            /\ compression[t].pc = "done"
    /\ \E t \in DOMAIN convert_tasks :
            /\ convert_tasks[t].status = COMPLETED
            /\ convert[t].pc = "done"

\* C10: cancel_task answers true (200) exactly when the task exists and is
\* PENDING or DOWNLOADING, and then writes ERROR and "Cancelled by user" and
\* nothing else; otherwise it answers false (400) and changes no task.
C10_CancelDownload ==
    [][ response'.op = "cancel_download" =>
            LET task_id == response'.id
                accepted == /\ task_id \in DOMAIN tasks
                            /\ tasks[task_id].status \in {PENDING, DOWNLOADING}
            IN  /\ response'.code = IF accepted THEN 200 ELSE 400
                /\ accepted =>
                    tasks' = [tasks EXCEPT ![task_id].status = ERROR,
                                           ![task_id].error = Cancelled]
                /\ ~accepted => tasks' = tasks
                /\ worker' = worker ]_vars

\* a download was just cancelled while its worker was running, and the
\* cancel of another id was just refused
C10_Witness ==
    /\ response.op = "cancel_download" /\ response.code = 200
    /\ worker[response.id] = "running"
    /\ tasks[response.id].status = ERROR
    /\ tasks[response.id].error = Cancelled

\* a cancel was just refused for a task that is being fetched
C10_WitnessRefused ==
    /\ response.op = "cancel_download" /\ response.code = 400
    /\ response.id \in DOMAIN tasks
    /\ tasks[response.id].status = FETCHING_INFO

\* what a transcoding cancel handler must have done when it answers for the
\* task task_id of registry, whose in-progress status is in_progress
TranscodeCancel(registry, registry_next, in_progress) ==
    LET task_id == response'.id IN
    IF task_id \notin DOMAIN registry
    THEN response'.code = 404 /\ registry_next = registry
    ELSE IF registry[task_id].status # in_progress
    THEN response'.code = 400 /\ registry_next = registry
    ELSE /\ response'.code = 200
         /\ registry_next = [registry EXCEPT ![task_id].status = ERROR,
                                             ![task_id].error = Cancelled]

\* C11: a compress or convert cancel answers 200 exactly when the task exists
\* and is in its in-progress status, and then writes ERROR and "Cancelled by
\* user"; an unknown id is answered 404 and any other status 400, and then no
\* task of the registry is changed.
C11_CancelTranscode ==
    [][ /\ response'.op = "cancel_compression" =>
            TranscodeCancel(compression_tasks, compression_tasks', COMPRESSING)
        /\ response'.op = "cancel_convert" =>
            TranscodeCancel(convert_tasks, convert_tasks', PROCESSING) ]_vars

\* a compression was just cancelled and its process ended by the signal
C11_Witness ==
    /\ response.op = "cancel_compression" /\ response.code = 200
    /\ compression_tasks[response.id].status = ERROR
    /\ compression_tasks[response.id].error = Cancelled
    /\ compression[response.id].process = "exited"
    /\ compression[response.id].returncode = -15

\* a conversion's cancel was just refused because the task was still PENDING
C11_WitnessRefused ==
    /\ response.op = "cancel_convert" /\ response.code = 400
    /\ response.id \in DOMAIN convert_tasks
    /\ convert_tasks[response.id].status = PENDING

\* C12: once a compress or convert task carries "Cancelled by user", that
\* is, once its cancel has returned, no process spawned for it is running.
\* A cancel that arrives before the runner has written task.process finds
\* no handle and signals nothing.
C12_CancelledProcessStopped ==
    /\ \A t \in DOMAIN compression_tasks :
            compression_tasks[t].error = Cancelled => compression[t].process # "running"
    /\ \A t \in DOMAIN convert_tasks :
            convert_tasks[t].error = Cancelled => convert[t].process # "running"

\* an error field that holds a non-empty message
NonEmptyError(error) == error.set /\ error.text # <<>> /\ error.text # <<"">>

\* what the last lock section of a runner must have done to its task
FinalOutcome(task, task_next, returncode) ==
    IF task.error = Cancelled THEN task_next = task
    ELSE IF returncode = 0
    THEN task_next = [task EXCEPT !.status = COMPLETED, !.progress = P100]
    ELSE /\ task_next.status = ERROR
         /\ NonEmptyError(task_next.error)
         /\ task_next.progress = task.progress

\* C13: the step in which a runner leaves process.wait() and returns writes
\* COMPLETED and 100.0 for exit code 0, ERROR and a non-empty error for any
\* other exit code, and nothing at all if the task's error is "Cancelled by
\* user"; and a cancel that comes after that step is refused, so of a cancel
\* and an exit that race, the one that took the lock first decides.
C13_FinalWrite ==
    [][ /\ \A t \in DOMAIN compression :
            (compression[t].pc = "wait" /\ compression'[t].pc = "done") =>
                FinalOutcome(compression_tasks[t], compression_tasks'[t],
                             compression[t].returncode)
        /\ \A t \in DOMAIN convert :
            (convert[t].pc = "wait" /\ convert'[t].pc = "done") =>
                FinalOutcome(convert_tasks[t], convert_tasks'[t], convert[t].returncode)
        /\ \A t \in DOMAIN compression :
            (response'.op = "cancel_compression" /\ response'.id = t
                /\ compression[t].pc = "done") =>
                    (response'.code = 400 /\ compression_tasks' = compression_tasks)
        /\ \A t \in DOMAIN convert :
            (response'.op = "cancel_convert" /\ response'.id = t
                /\ convert[t].pc = "done") =>
                    (response'.code = 400 /\ convert_tasks' = convert_tasks)
      ]_vars

\* a cancel was just refused because the runner, whose process had ended
\* with an error, had written its outcome first
C13_Witness ==
    /\ response.op = "cancel_compression" /\ response.code = 400
    /\ response.id \in DOMAIN compression
    /\ compression[response.id].pc = "done"
    /\ compression_tasks[response.id].status = ERROR
    /\ compression_tasks[response.id].error = Msg(CompressFailed)

\* a runner has returned and left the cancellation of its task in place
C13_WitnessCancelled ==
    \E t \in DOMAIN convert :
        /\ convert[t].pc = "done"
        /\ convert_tasks[t].status = ERROR
        /\ convert_tasks[t].error = Cancelled

\* C14: an event stream emits no event after an event whose status field is
\* COMPLETED or ERROR.
C14_NoEventAfterTerminal ==
    \A i \in 1 .. Len(observer.events) - 1 : observer.events[i] \notin Terminal

\* C15: an event stream that has ended has emitted an event, and the last
\* event it emitted carries status COMPLETED or ERROR.
C15_EndsAfterTerminal ==
    (observer.mode = "events" /\ observer.pc = "closed") =>
        /\ observer.events # <<>>
        /\ observer.events[Len(observer.events)] \in Terminal

\* C16: the status, progress and error of a payload that is going out were
\* the task's status, progress and error together at some moment between
\* the first and the last read of the payload.
C16_ConsistentSnapshot ==
    observer.pc \in {"returned", "yielded"} => observer.data \in observer.seen

\* C17: the step in which the engine raises -- the download engine inside
\* the worker, or Popen inside a compress or convert runner -- leaves the
\* task with status ERROR and the exception's message in its error field.
C17_RaiseIsError ==
    [][ /\ \A t \in DOMAIN worker :
            DownloadWorkerExcept(t) =>
                (tasks'[t].status = ERROR /\ NonEmptyError(tasks'[t].error))
        /\ \A t \in DOMAIN compression :
            (compression[t].pc = "popen" /\ compression'[t].pc = "raised") =>
                /\ compression_tasks'[t].status = ERROR
                /\ NonEmptyError(compression_tasks'[t].error)
        /\ \A t \in DOMAIN convert :
            (convert[t].pc = "popen" /\ convert'[t].pc = "raised") =>
                /\ convert_tasks'[t].status = ERROR
                /\ NonEmptyError(convert_tasks'[t].error)
      ]_vars

\* a transcoding task that failed for want of the binary, and its runner
ToolMissing(task, runner) ==
    /\ task.status = ERROR
    /\ NonEmptyError(task.error)
    /\ ~task.process
    /\ runner.pc = "done"
    /\ runner.process = "none"

\* C18: the step of a runner that does not find the binary takes the task
\* from PENDING to ERROR with a non-empty error and ends the runner with no
\* process spawned; afterwards the task does not change and no process is
\* spawned for it.
C18_ToolMissing ==
    [][ /\ \A t \in DOMAIN compression :
            /\ CompressionBegin(t, FALSE) =>
                /\ compression_tasks[t].status = PENDING
                /\ ToolMissing(compression_tasks'[t], compression'[t])
                /\ compression_tasks'[t].error = Msg(FfmpegMissingCompress)
            /\ compression_tasks[t].error = Msg(FfmpegMissingCompress) =>
                ToolMissing(compression_tasks'[t], compression'[t])
        /\ \A t \in DOMAIN convert :
            /\ ConvertBegin(t, FALSE) =>
                /\ convert_tasks[t].status = PENDING
                /\ ToolMissing(convert_tasks'[t], convert'[t])
                /\ convert_tasks'[t].error = Msg(FfmpegMissingConvert)
            /\ convert_tasks[t].error = Msg(FfmpegMissingConvert) =>
                ToolMissing(convert_tasks'[t], convert'[t])
      ]_vars

\* a compression failed for want of the binary, and its cancel was refused
C18_Witness ==
    /\ response.op = "cancel_compression" /\ response.code = 400
    /\ response.id \in DOMAIN compression_tasks
    /\ compression_tasks[response.id].error = Msg(FfmpegMissingCompress)
    /\ ToolMissing(compression_tasks[response.id], compression[response.id])

\* the download tasks whose worker has started and not yet finished
Executing == {t \in DOMAIN worker : worker[t] = "running"}

\* the download tasks whose worker has not started
Waiting == {t \in DOMAIN worker : worker[t] = "queued"}

\* at most 3 workers execute; a waiting task is PENDING, unless it has been
\* cancelled while it waited; and a task waits only when no worker is free
\* or when the pool has not picked it up yet
PoolBounded ==
    /\ Cardinality(Executing) <= 3
    /\ \A t \in Waiting :
            \/ tasks[t].status = PENDING
            \/ tasks[t].status = ERROR /\ tasks[t].error = Cancelled

BlockedUnderLock ==
    {kind \in {"compress", "convert"} :
        \E t \in DOMAIN Registry(kind) :
            IF kind = "compress" THEN compression[t].process = "terminating"
                                ELSE convert[t].process = "terminating"}

\* C20: no thread is inside a blocking operation while it holds a per-kind
\* lock; in particular neither compression_lock nor convert_lock is held
\* across process.wait.
C20_NoBlockingUnderLock == BlockedUnderLock = {}

\* C21: creating a task never replaces an existing one: the identifier of
\* an admitted download is not in the registry before the submission, and
\* every task that was there is left as it was.
C21_CreateNeverReplaces ==
    [][ response'.op = "start_download" /\ response'.code = 200 =>
            /\ response'.id \notin DOMAIN tasks
            /\ \A t \in DOMAIN tasks : tasks'[t] = tasks[t]
      ]_vars

\* C22: a task is never removed from its registry: every identifier a
\* registry holds before a step is held by it after the step, for the three
\* kinds and whatever the step is.
C22_NeverRemoved ==
    [][ /\ DOMAIN tasks \subseteq DOMAIN tasks'
        /\ DOMAIN compression_tasks \subseteq DOMAIN compression_tasks'
        /\ DOMAIN convert_tasks \subseteq DOMAIN convert_tasks'
      ]_vars

\* a cancelled download is still in the registry when a later submission
\* has been admitted
C22_Witness ==
    /\ response.op = "start_download" /\ response.code = 200
    /\ \E t \in DOMAIN tasks :
            /\ t # response.id
            /\ tasks[t].status = ERROR /\ tasks[t].error = Cancelled

\* a step leaves a set error field as it is
ErrorKept(registry, registry_next) ==
    \A t \in DOMAIN registry :
        registry[t].error.set => registry_next[t].error = registry[t].error

\* C23: a task's error field is set at most once and never cleared: once
\* it is set it keeps that value over every later step, for the three
\* kinds.
C23_ErrorSetOnce ==
    [][ /\ ErrorKept(tasks, tasks')
        /\ ErrorKept(compression_tasks, compression_tasks')
        /\ ErrorKept(convert_tasks, convert_tasks')
      ]_vars

\* the progress the claim gives for a line key=v under duration D, in tenths
\* of a percent
ClaimedProgress(key, v, D) ==
    IF key = "out_time_ms" /\ v <= 10 * D
    THEN Min(1000, (v * 1000) \div D)
    ELSE Min(1000, ((v \div 1000) * 1000) \div D)

\* C24: with a known duration D, a line out_time_ms=v makes the parser
\* write min(100, v/D*100) when v <= 10*D and min(100, (v/1000)/D*100)
\* otherwise, and a line out_time_us=v makes it write min(100,
\* (v/1000)/D*100), in the compress and in the convert parser: the reader
\* that took the line holds that value, and its lock section writes it to
\* the task.
C24_DurationProgress ==
    [][ /\ \A line \in ParseLines :
            /\ CompressionReadLine(1, "stdout", line) =>
                    compression'[1].stdout.progress =
                        ClaimedProgress(line.key, line.num, compression[1].duration_ms)
            /\ ConvertReadLine(1, "stdout", line) =>
                    convert'[1].stdout.progress =
                        ClaimedProgress(line.key, line.num, convert[1].duration_ms)
        /\ CompressionKeyWrite(1, "stdout") =>
                compression_tasks'[1].progress = compression[1].stdout.progress
        /\ ConvertKeyWrite(1, "stdout") =>
                convert_tasks'[1].progress = convert[1].stdout.progress
      ]_vars

\* out_time_ms=110000 under a duration of 10000 ms has been taken as
\* microseconds by both parsers: 110 ms of 10000 ms is 1.1 percent
C24_Witness ==
    /\ compression[1].duration_ms = 10000 /\ compression_tasks[1].progress = 11
    /\ convert[1].duration_ms = 10000 /\ convert_tasks[1].progress = 11

\* one step of a task whose duration is unknown: while the task stays in
\* progress its progress does not decrease and is at most 99.0, and it is
\* 100.0 after the step only if the step is the completion write
HeuristicStep(task, task_next, in_progress) ==
    task.status = in_progress =>
        /\ task_next.status = in_progress =>
                /\ task_next.progress >= task.progress
                /\ task_next.progress <= 990
        /\ task_next.progress = 1000 => task_next.status = COMPLETED

\* C25: when the duration is unknown, the progress of a compress or convert
\* task never decreases and never exceeds 99.0 while the task is in
\* progress, whatever the lines and however the stdout reader and the
\* stderr reader interleave; it becomes 100.0 only with the completion
\* write.
C25_HeuristicMonotone ==
    [][ /\ HeuristicStep(compression_tasks[1], compression_tasks'[1], COMPRESSING)
        /\ HeuristicStep(convert_tasks[1], convert_tasks'[1], PROCESSING)
      ]_vars

\* the candidates base-suffix.ext, base-suffix-2.ext .. base-suffix-49.ext
\* that do not exist
FreeCandidates(suffix, exists) ==
    {index \in 1 .. 49 : Path(suffix, index) \notin exists}

\* the path the claim gives: the first free candidate, the timestamp path
\* when there is none
ClaimedPath(suffix, exists, now) ==
    LET free == FreeCandidates(suffix, exists)
    IN  IF free # {}
        THEN Path(suffix, CHOOSE index \in free : \A other \in free : index <= other)
        ELSE Path(suffix, now)

\* the paths assigned in a step are those the claim gives for the files of
\* the step
BuiltAsClaimed(suffix, paths, paths_next) ==
    \A task_id \in DOMAIN paths_next \ DOMAIN paths :
        /\ \E now \in Timestamps :
                paths_next[task_id] = ClaimedPath(suffix, files, now)
        /\ FreeCandidates(suffix, files) # {} => paths_next[task_id] \notin files

\* C27: _build_output_path and _build_convert_output_path return the first
\* path that does not exist among base-suffix.ext, base-suffix-2.ext, ...,
\* base-suffix-49.ext, and the timestamp path only when all of them exist;
\* the path returned names no existing file when a candidate is free.
C27_FirstFreeCandidate ==
    [][ /\ BuiltAsClaimed("compressed", output_path.compress, output_path'.compress)
        /\ BuiltAsClaimed("converted", output_path.convert, output_path'.convert)
      ]_vars

\* with the first 48 candidates taken, a convert task got base-converted-49
C27_Witness ==
    /\ \A index \in 1 .. 48 : Path("converted", index) \in files
    /\ Path("converted", 49) \notin files
    /\ \E task_id \in DOMAIN output_path.convert :
            output_path.convert[task_id] = Path("converted", 49)

\* no two tasks of one kind have the same output path
DistinctPaths(paths) ==
    \A t1, t2 \in DOMAIN paths : t1 # t2 => paths[t1] # paths[t2]

\* C26: any two compress tasks, and any two convert tasks, created for the
\* same input file, output directory and output format have distinct
\* output paths, also when both runners build their path before either
\* transcoder has created its output file.
C26_DistinctOutputPaths ==
    /\ DistinctPaths(output_path.compress)
    /\ DistinctPaths(output_path.convert)

\* C28: a convert submission is never refused because of other convert
\* tasks: the answer to /convert is 200 with a new PENDING task whenever the
\* input is a file, whatever the statuses of the convert tasks, and 400
\* otherwise.
C28_ConvertAlwaysAdmitted ==
    [][ response'.op = "start_convert" =>
            /\ response'.code \in {200, 400}
            /\ \A input_is_file \in BOOLEAN :
                    start_convert(input_is_file) =>
                        response'.code = (IF input_is_file THEN 200 ELSE 400)
            /\ response'.code = 200 =>
                    /\ response'.id \notin DOMAIN convert_tasks
                    /\ response'.id \in DOMAIN convert_tasks'
                    /\ convert_tasks'[response'.id].status = PENDING
      ]_vars

\* two convert tasks are processing at the same time, each with its
\* transcoder running
C28_Witness ==
    \E t1, t2 \in DOMAIN convert_tasks :
        /\ t1 # t2
        /\ convert_tasks[t1].status = PROCESSING /\ convert[t1].process = "running"
        /\ convert_tasks[t2].status = PROCESSING /\ convert[t2].process = "running"

\* C29: hardware-encoder detection runs at most once per process: once
\* "ffmpeg -encoders" has run, no later step runs it again, whatever it
\* found, and the queries answer from the cached record.
C29_DetectOnce == [][probes >= 1 => probes' = probes]_vars

\* the threads whose next statement writes a task
Writers == {thread \in Threads : Statement(thread) = "write"}

\* C30: every write to a task's fields is made by a thread that holds the
\* lock of the task's kind, so no two threads are writing tasks of one kind
\* at the same time.
C30_WritesUnderLock ==
    /\ \A thread \in Writers : threads.lock = thread
    /\ Cardinality(Writers) <= 1

\* a reader thread is about to write progress under the lock while the
\* runner and the cancel handler wait to acquire it
C30_Witness ==
    /\ threads.kind = "compress"
    /\ Statement("stdout") = "write"
    /\ Statement("worker") = "acquire"
    /\ threads.at["loop"].function = "cancel" /\ Statement("loop") = "acquire"

\* the last min(5, n) of n lines, in the order they arrived
LastLines(read) ==
    LET n == Len(read)
        k == IF n < 5 THEN n ELSE 5
    IN  [i \in 1..k |-> read[n - k + i]]

\* these lines as the error, or the fixed message when they join to ""
ClaimedError(read, default) ==
    LET tail == LastLines(read)
    IN  IF Len(tail) = 0 \/ (Len(tail) = 1 /\ tail[1] = "")
        THEN Msg(default)
        ELSE [set |-> TRUE, text |-> tail]

\* the last lock section of every runner that finds a nonzero return code
\* and no cancellation
FailedAsClaimed(registry, registry_next, runners, default) ==
    \A task_id \in DOMAIN runners :
        (/\ runners[task_id].pc = "wait"
         /\ runners[task_id].process = "exited"
         /\ runners[task_id].returncode # 0
         /\ registry[task_id].error # Cancelled)
        => /\ registry_next[task_id].status = ERROR
           /\ registry_next[task_id].error =
                ClaimedError(runners[task_id].last_error_lines, default)

\* C31: when the transcoder of a compress or convert task that was not
\* cancelled exits with a nonzero code, the runner's last lock section
\* writes as the error the last min(5, n) of the n stderr lines read so
\* far, in the order they arrived, or the kind's fixed message when these
\* lines join to the empty string.
C31_ErrorIsStderrTail ==
    [][/\ (\E task_id \in TaskIds : CompressionFinish(task_id))
            => FailedAsClaimed(compression_tasks, compression_tasks',
                               compression, CompressFailed)
       /\ (\E task_id \in TaskIds : ConvertFinish(task_id))
            => FailedAsClaimed(convert_tasks, convert_tasks', convert, ConvertFailed)]_vars

\* a task failed with more lines read than the tail keeps,
\* and its error is five lines that are not all the same
C31_Witness ==
    /\ lines = MaxTailLines
    /\ \E registry \in {compression_tasks, convert_tasks} :
        /\ registry # <<>>
        /\ registry[1].status = ERROR
        /\ registry[1].error.set
        /\ Len(registry[1].error.text) = 5
        /\ registry[1].error.text[1] # registry[1].error.text[5]

\* a task failed with nothing but an empty line read and got the fixed message
C31_WitnessDefault ==
    /\ lines = 1
    /\ convert_tasks # <<>>
    /\ convert_tasks[1].status = ERROR
    /\ convert_tasks[1].error = Msg(ConvertFailed)

\* the total a tick carries, or its estimate; 0 when neither is known
TickTotal(d) ==
    IF d.total_bytes > 0 THEN d.total_bytes
    ELSE IF d.total_bytes_estimate > 0 THEN d.total_bytes_estimate
    ELSE 0

\* the progress a tick leaves
TickAsClaimed(task, task_next, d) ==
    IF TickTotal(d) > 0
    THEN task_next.progress = (d.downloaded_bytes * 1000) \div TickTotal(d)
    ELSE task_next.progress = task.progress

\* C32: a progress tick with status "downloading" sets the task's progress
\* to downloaded_bytes / total * 100, where total is total_bytes or else
\* total_bytes_estimate, when that total is known and above 0, and leaves
\* the progress as it was when the total is unknown or 0; a tick for an
\* identifier that is not in the registry changes nothing.
C32_DownloadingTick ==
    [][\A task_id \in TaskIds : \A d \in HookEvents :
        /\ (d.status = "downloading" /\ _progress_hook(task_id, d))
                => TickAsClaimed(tasks[task_id], tasks'[task_id], d)
        /\ _progress_hook_unknown(task_id, d)
                => UNCHANGED <<tasks, worker, compressVars, convertVars>>]_vars

\* one tick was made, with half of its total downloaded, and the progress
\* is 50.0
C32_Witness ==
    /\ 1 \in DOMAIN tasks
    /\ tasks[1].status = DOWNLOADING
    /\ tasks[1].progress = 500
    /\ ticks = 1

\* a tick was made while the registry held no task
C32_WitnessUnknown == tasks = <<>> /\ ticks = 1

\* C33: under fair scheduling, with every call of an engine returning or
\* raising, every task in a registry, of whatever kind, reaches COMPLETED or
\* ERROR.
C33_EventuallyTerminal ==
    \A task_id \in TaskIds :
        /\ (task_id \in DOMAIN tasks)
                ~> (task_id \in DOMAIN tasks /\ tasks[task_id].status \in Terminal)
        /\ (task_id \in DOMAIN compression_tasks)
                ~> (task_id \in DOMAIN compression_tasks /\ compression_tasks[task_id].status \in Terminal)
        /\ (task_id \in DOMAIN convert_tasks)
                ~> (task_id \in DOMAIN convert_tasks /\ convert_tasks[task_id].status \in Terminal)

\* C34: once the worker of a download task has returned, the task is
\* COMPLETED or ERROR, and no step taken afterwards -- a cancel request, a
\* status request, an event stream, the worker or the hook of another task
\* -- changes its status, its progress or its error.
C34_FinishedDownloadFrozen ==
    [][\A task_id \in DOMAIN worker :
        /\ worker'[task_id] = "done" => tasks'[task_id].status \in Terminal
        /\ worker[task_id] = "done" =>
            /\ tasks'[task_id].status = tasks[task_id].status
            /\ tasks'[task_id].progress = tasks[task_id].progress
            /\ tasks'[task_id].error = tasks[task_id].error]_vars

\* a cancel request for a completed download was refused while the worker
\* of another download was running, after a progress tick of that one
C34_Witness ==
    /\ DOMAIN worker = {1, 2}
    /\ \E task_id \in {1, 2} :
        /\ worker[task_id] = "done"
        /\ tasks[task_id].status = COMPLETED
        /\ response = [op |-> "cancel_download", id |-> task_id, code |-> 400]
        /\ worker[3 - task_id] = "running"
        /\ tasks[3 - task_id].status = DOWNLOADING

\* both parsers have handled the first n lines of the content
Handled(n) ==
    /\ replay.read.compress = n
    /\ replay.read.convert = n
    /\ compression[1].stdout.pc = "readline"
    /\ convert[1].stdout.pc = "readline"

\* C35: with a known duration above 0, the compress parser and the convert
\* parser, each fed the same sequence of lines by one reader, have written
\* the same sequence of progress values to their task once both have
\* handled the same lines.
C35_SameWrites ==
    \A n \in 0 .. Len(replay.input) :
        Handled(n) => replay.written.compress = replay.written.convert
====
